---- MODULE Spec2Model ----
(***************************************************************************)
(* Model of the alias script compiler and expansion engine of repos-cli.   *)
(* Strings are sequences of one-character strings, positions are 1-based   *)
(* (Python position p is position p+1 here).                               *)
(***************************************************************************)
EXTENDS Integers, Sequences, FiniteSets, TLC

(* ------------------------------------------------------------------ *)
(* Bounds                                                              *)
(* ------------------------------------------------------------------ *)
MaxLen == 3
MaxCommands == 2

MaxChain == 3

MaxPieces == 3

(* ------------------------------------------------------------------ *)
(* Characters                                                          *)
(* ------------------------------------------------------------------ *)
Letters ==
    {"a","b","c","d","e","f","g","h","i","j","k","l","m","n","o","p","q",
     "r","s","t","u","v","w","x","y","z","A","C","D","E","H","K"}

Digits == {"0","1","2","3","4","5","6","7","8","9"}

IdentStart == Letters \cup {"_"}

IdentChars == Letters \cup Digits \cup {"_"}

PyWhitespace == {" ", "\t", "\n", "\r", "\f"}

ShlexSafeChars == IdentChars \cup {"@", "%", "+", "=", ":", ",", ".", "/", "-"}

Alphabet == {"a", " ", ";", "\n", "'", "\"", "@", "\\", "$", "#"}

(* ------------------------------------------------------------------ *)
(* String helpers                                                      *)
(* ------------------------------------------------------------------ *)
StringsUpTo(n) == UNION {[1..k -> Alphabet] : k \in 0..n}

RECURSIVE LStrip(_)
LStrip(s) ==
    IF s # <<>> /\ Head(s) \in PyWhitespace THEN LStrip(Tail(s)) ELSE s

RECURSIVE RStrip(_)
RStrip(s) ==
    IF s # <<>> /\ s[Len(s)] \in PyWhitespace
    THEN RStrip(SubSeq(s, 1, Len(s) - 1))
    ELSE s

Strip(s) == RStrip(LStrip(s))

StartsWithAt(s, pat, k) ==
    /\ k + Len(pat) - 1 <= Len(s)
    /\ SubSeq(s, k, k + Len(pat) - 1) = pat

\* str.replace(old, new): leftmost non-overlapping occurrences, one pass
RECURSIVE ReplaceFrom(_, _, _, _)
ReplaceFrom(s, old, new, k) ==
    IF k > Len(s) THEN <<>>
    ELSE IF StartsWithAt(s, old, k)
         THEN new \o ReplaceFrom(s, old, new, k + Len(old))
         ELSE <<s[k]>> \o ReplaceFrom(s, old, new, k + 1)

StrReplace(s, old, new) == ReplaceFrom(s, old, new, 1)

Chars(s) == {s[k] : k \in 1..Len(s)}

(* ------------------------------------------------------------------ *)
(* shlex.quote, as called by shell_quote                               *)
(* ------------------------------------------------------------------ *)
SQ == "'"

DQ == "\""

BS == "\\"

NL == "\n"

EscapedSingleQuote == <<SQ, DQ, SQ, DQ, SQ>>

QuoteNoEscape(s) ==
    IF s = <<>> THEN <<SQ, SQ>>
    ELSE IF Chars(s) \subseteq ShlexSafeChars THEN s
    ELSE <<SQ>> \o s \o <<SQ>>

shell_quote(s) ==
    IF s = <<>> THEN <<SQ, SQ>>
    ELSE IF Chars(s) \subseteq ShlexSafeChars THEN s
    ELSE <<SQ>> \o StrReplace(s, <<SQ>>, EscapedSingleQuote) \o <<SQ>>

(* ------------------------------------------------------------------ *)
(* shlex.split (posix, whitespace_split, no comments)                  *)
(* st: "ws" before a token, "a" inside a token, "sq"/"dq" inside       *)
(* quotes, "esc" after a backslash (back holds the state to return to) *)
(* ------------------------------------------------------------------ *)
ShlexWhitespace == {" ", "\t", "\r", "\n"}

RECURSIVE ShlexScan(_, _, _, _, _, _, _)
ShlexScan(s, k, st, tok, quoted, back, toks) ==
    LET emit == IF tok # <<>> \/ quoted THEN Append(toks, tok) ELSE toks
    IN
    IF k > Len(s) THEN
        IF st \in {"sq", "dq", "esc"}
        THEN [ok |-> FALSE, toks |-> <<>>]
        ELSE [ok |-> TRUE, toks |-> emit]
    ELSE
      LET c == s[k] IN
      CASE st = "ws" ->
             IF c \in ShlexWhitespace
             THEN ShlexScan(s, k + 1, "ws", <<>>, FALSE, "a", emit)
             ELSE IF c = BS
             THEN ShlexScan(s, k + 1, "esc", tok, quoted, "a", toks)
             ELSE IF c = SQ
             THEN ShlexScan(s, k + 1, "sq", tok, TRUE, back, toks)
             ELSE IF c = DQ
             THEN ShlexScan(s, k + 1, "dq", tok, TRUE, back, toks)
             ELSE ShlexScan(s, k + 1, "a", <<c>>, quoted, back, toks)
        [] st = "a" ->
             IF c \in ShlexWhitespace
             THEN ShlexScan(s, k + 1, "ws", <<>>, FALSE, "a", emit)
             ELSE IF c = SQ
             THEN ShlexScan(s, k + 1, "sq", tok, TRUE, back, toks)
             ELSE IF c = DQ
             THEN ShlexScan(s, k + 1, "dq", tok, TRUE, back, toks)
             ELSE IF c = BS
             THEN ShlexScan(s, k + 1, "esc", tok, quoted, "a", toks)
             ELSE ShlexScan(s, k + 1, "a", Append(tok, c), quoted, back, toks)
        [] st = "sq" ->
             IF c = SQ
             THEN ShlexScan(s, k + 1, "a", tok, TRUE, back, toks)
             ELSE ShlexScan(s, k + 1, "sq", Append(tok, c), TRUE, back, toks)
        [] st = "dq" ->
             IF c = DQ
             THEN ShlexScan(s, k + 1, "a", tok, TRUE, back, toks)
             ELSE IF c = BS
             THEN ShlexScan(s, k + 1, "esc", tok, TRUE, "dq", toks)
             ELSE ShlexScan(s, k + 1, "dq", Append(tok, c), TRUE, back, toks)
        [] OTHER ->
             \* st = "esc": inside double quotes the backslash is kept
             \* unless it precedes a backslash or a double quote
             LET kept == IF back = "dq" /\ c # BS /\ c # DQ
                         THEN Append(tok, BS) ELSE tok
             IN ShlexScan(s, k + 1, back, Append(kept, c), quoted, back, toks)

shlex_split(s) == ShlexScan(s, 1, "ws", <<>>, FALSE, "a", <<>>)

(* ------------------------------------------------------------------ *)
(* parse_alias_script                                                  *)
(* A lexer state is the record of the loop variables of the function:  *)
(*   i (scan position), state, cur (current_segment), segs (segments), *)
(*   acb (at_command_boundary).  seps and calls are history fields:    *)
(*   the positions whose character was consumed as a command separator *)
(*   and the positions of the "@" that produced an alias segment;      *)
(*   used holds the positions whose character was copied into          *)
(*   current_segment or into the text of an alias segment.             *)
(* ------------------------------------------------------------------ *)
Literal(text) == [type |-> "literal", content |-> text, args |-> <<>>]

AliasCall(name, args) == [type |-> "alias", content |-> name, args |-> args]

Separators == {";", "\n"}

Blanks == {" ", "\t"}

\* a flush that also emits an empty segment
FlushKeepEmpty(segs, cur) == Append(segs, Literal(Strip(cur)))

\* a flush that keeps the surrounding whitespace
FlushUnstripped(segs, cur) ==
    IF Strip(cur) # <<>> THEN Append(segs, Literal(cur)) ELSE segs

\* the flush of current_segment: stripped, appended when not empty
FlushLiteral(segs, cur) ==
    IF Strip(cur) # <<>> THEN Append(segs, Literal(Strip(cur))) ELSE segs

\* while j < len(script) and (script[j].isalnum() or script[j] == '_')
RECURSIVE ScanName(_, _)
ScanName(script, j) ==
    IF j <= Len(script) /\ script[j] \in IdentChars
    THEN ScanName(script, j + 1)
    ELSE j

\* while j < len(script) and script[j] in (' ', '\t')
RECURSIVE SkipBlanks(_, _)
SkipBlanks(script, j) ==
    IF j <= Len(script) /\ script[j] \in Blanks
    THEN SkipBlanks(script, j + 1)
    ELSE j

\* an argument collection that runs on to the next separator
RECURSIVE ScanArgsToSeparator(_, _, _)
ScanArgsToSeparator(script, j, atTokenBoundary) ==
    IF j > Len(script) THEN j
    ELSE IF script[j] \in Separators THEN j
    ELSE ScanArgsToSeparator(script, j + 1, FALSE)

\* the argument collection loop: stops at a separator, at an "@" that
\* follows a blank (or starts the arguments), or at the end
RECURSIVE ScanArgs(_, _, _)
ScanArgs(script, j, atTokenBoundary) ==
    IF j > Len(script) THEN j
    ELSE IF script[j] \in Separators THEN j
    ELSE IF script[j] \in Blanks THEN ScanArgs(script, j + 1, TRUE)
    ELSE IF script[j] = "@" /\ atTokenBoundary THEN j
    ELSE ScanArgs(script, j + 1, FALSE)

LexInit ==
    [i |-> 1, state |-> "NORMAL", cur |-> <<>>, segs |-> <<>>, acb |-> TRUE,
     seps |-> {}, calls |-> {}, used |-> {}]

\* the "@" branch of the NORMAL state
LexAt(script, st) ==
    LET flushed == FlushLiteral(st.segs, st.cur)
        j1 == ScanName(script, st.i + 1)
        name == SubSeq(script, st.i + 1, j1 - 1)
        j2 == SkipBlanks(script, j1)
        j == ScanArgs(script, j2, TRUE)
        argsStr == Strip(SubSeq(script, j2, j - 1))
        parsed == IF argsStr # <<>> THEN shlex_split(argsStr)
                  ELSE [ok |-> TRUE, toks |-> <<>>]
    IN
    IF name = <<>> THEN
        [st EXCEPT !.segs = flushed, !.cur = <<"@">>, !.i = st.i + 1,
                   !.acb = FALSE, !.used = st.used \cup {st.i}]
    ELSE IF ~parsed.ok THEN
        [st EXCEPT !.segs = flushed, !.cur = SubSeq(script, st.i, j - 1),
                   !.i = j, !.acb = FALSE,
                   !.used = st.used \cup (st.i..(j - 1))]
    ELSE
        [st EXCEPT !.segs = Append(flushed, AliasCall(name, parsed.toks)),
                   !.cur = <<>>, !.i = j,
                   !.acb = (j <= Len(script)
                            /\ script[j] \in Separators \cup {"@"}),
                   !.calls = st.calls \cup {st.i},
                   !.used = st.used \cup (st.i..(j - 1))]

\* one iteration of the while loop
LexStep(script, st) ==
    LET ch == script[st.i] IN
    CASE st.state = "ESCAPE" ->
           [st EXCEPT !.cur = Append(st.cur, ch), !.state = "NORMAL",
                      !.i = st.i + 1, !.acb = FALSE,
                      !.used = st.used \cup {st.i}]
      [] st.state = "NORMAL" ->
           IF ch = BS THEN
               [st EXCEPT !.cur = Append(st.cur, ch), !.state = "ESCAPE",
                          !.i = st.i + 1, !.used = st.used \cup {st.i}]
           ELSE IF ch = SQ THEN
               [st EXCEPT !.cur = Append(st.cur, ch),
                          !.state = "SINGLE_QUOTE", !.i = st.i + 1,
                          !.acb = FALSE, !.used = st.used \cup {st.i}]
           ELSE IF ch = DQ THEN
               [st EXCEPT !.cur = Append(st.cur, ch),
                          !.state = "DOUBLE_QUOTE", !.i = st.i + 1,
                          !.acb = FALSE, !.used = st.used \cup {st.i}]
           ELSE IF ch \in Separators THEN
               [st EXCEPT !.segs = FlushLiteral(st.segs, st.cur),
                          !.cur = <<>>, !.acb = TRUE, !.i = st.i + 1,
                          !.seps = st.seps \cup {st.i}]
           ELSE IF ch \in Blanks THEN
               [st EXCEPT !.cur = IF ~st.acb \/ st.cur # <<>>
                                  THEN Append(st.cur, ch) ELSE st.cur,
                          !.used = IF ~st.acb \/ st.cur # <<>>
                                   THEN st.used \cup {st.i} ELSE st.used,
                          !.i = st.i + 1]
           ELSE IF ch = "@" /\ st.acb THEN
               LexAt(script, st)
           ELSE
               [st EXCEPT !.cur = Append(st.cur, ch), !.acb = FALSE,
                          !.i = st.i + 1, !.used = st.used \cup {st.i}]
      [] st.state = "SINGLE_QUOTE" ->
           [st EXCEPT !.cur = Append(st.cur, ch),
                      !.state = IF ch = SQ THEN "NORMAL" ELSE "SINGLE_QUOTE",
                      !.i = st.i + 1, !.used = st.used \cup {st.i}]
      [] OTHER ->
           \* DOUBLE_QUOTE
           IF ch = BS THEN
               IF st.i + 1 <= Len(script)
               THEN [st EXCEPT !.cur = st.cur \o <<ch, script[st.i + 1]>>,
                               !.i = st.i + 2,
                               !.used = st.used \cup {st.i, st.i + 1}]
               ELSE [st EXCEPT !.cur = Append(st.cur, ch), !.i = st.i + 1,
                               !.used = st.used \cup {st.i}]
           ELSE IF ch = DQ THEN
               [st EXCEPT !.cur = Append(st.cur, ch), !.state = "NORMAL",
                          !.i = st.i + 1, !.used = st.used \cup {st.i}]
           ELSE
               [st EXCEPT !.cur = Append(st.cur, ch), !.i = st.i + 1,
                          !.used = st.used \cup {st.i}]

RECURSIVE LexRun(_, _)
LexRun(script, st) ==
    IF st.i > Len(script) THEN st ELSE LexRun(script, LexStep(script, st))

\* the final lexer state, with the remaining segment flushed
LexFinal(script) ==
    LET st == LexRun(script, LexInit)
    IN [st EXCEPT !.segs = FlushLiteral(st.segs, st.cur), !.cur = <<>>]

parse_alias_script(script) == LexFinal(script).segs

(* ------------------------------------------------------------------ *)
(* extract_kwargs_and_posargs                                          *)
(* kwarg_pattern under re.match: the key is an identifier followed by  *)
(* "=", the value is the rest of the token; the dot of the pattern     *)
(* matches no newline and its end anchor accepts one trailing newline. *)
(* ------------------------------------------------------------------ *)
KwargMatch(tok) ==
    LET j == ScanName(tok, 1)
        rest == SubSeq(tok, j + 1, Len(tok))
        body == IF rest # <<>> /\ rest[Len(rest)] = NL
                THEN SubSeq(rest, 1, Len(rest) - 1) ELSE rest
    IN
    IF /\ tok # <<>>
       /\ tok[1] \in IdentStart
       /\ j <= Len(tok)
       /\ tok[j] = "="
       /\ NL \notin Chars(body)
    THEN [matched |-> TRUE, key |-> SubSeq(tok, 1, j - 1), value |-> body]
    ELSE [matched |-> FALSE, key |-> <<>>, value |-> <<>>]

NoKwargs == [n \in {} |-> <<>>]

RECURSIVE ExtractFrom(_, _, _)
ExtractFrom(args, kwargs, posargs) ==
    IF args = <<>> THEN [kwargs |-> kwargs, posargs |-> posargs]
    ELSE
      LET m == KwargMatch(Head(args)) IN
      IF m.matched
      THEN ExtractFrom(Tail(args),
                       [n \in DOMAIN kwargs \cup {m.key} |->
                            IF n = m.key THEN m.value ELSE kwargs[n]],
                       posargs)
      ELSE ExtractFrom(Tail(args), kwargs, Append(posargs, Head(args)))

extract_kwargs_and_posargs(args) == ExtractFrom(args, NoKwargs, <<>>)

(* ------------------------------------------------------------------ *)
(* substitute_placeholders                                             *)
(* ------------------------------------------------------------------ *)
\* placeholder_pattern.findall(script): the names of the non-overlapping
\* matches of "{" identifier "}", left to right
RECURSIVE FindPlaceholders(_, _)
FindPlaceholders(script, k) ==
    IF k > Len(script) THEN <<>>
    ELSE
      LET j == ScanName(script, k + 1) IN
      IF /\ script[k] = "{"
         /\ k + 1 <= Len(script)
         /\ script[k + 1] \in IdentStart
         /\ j <= Len(script)
         /\ script[j] = "}"
      THEN <<SubSeq(script, k + 1, j - 1)>> \o FindPlaceholders(script, j + 1)
      ELSE FindPlaceholders(script, k + 1)

Range(f) == {f[x] : x \in DOMAIN f}

\* the orders in which "for placeholder in set(placeholders)" can run
Orders(S) ==
    {o \in [1..Cardinality(S) -> S] : Range(o) = S}

RECURSIVE ReplaceAll(_, _, _)
ReplaceAll(text, kwargs, order) ==
    IF order = <<>> THEN text
    ELSE ReplaceAll(StrReplace(text, <<"{">> \o Head(order) \o <<"}">>,
                               shell_quote(kwargs[Head(order)])),
                    kwargs, Tail(order))

SelectSeq2(seq, S) ==
    LET Keep(x) == x \notin S IN SelectSeq(seq, Keep)

\* a substitution that reports only the first missing placeholder
SubstituteFirstMissing(script, kwargs, order) ==
    LET placeholders == FindPlaceholders(script, 1)
        missing == SelectSeq2(placeholders, DOMAIN kwargs)
    IN
    IF missing # <<>>
    THEN [ok |-> FALSE, text |-> <<>>, missing |-> <<Head(missing)>>,
          provided |-> DOMAIN kwargs]
    ELSE [ok |-> TRUE, text |-> ReplaceAll(script, kwargs, order),
          missing |-> <<>>, provided |-> {}]

\* a substitution that leaves unknown placeholders in the text
SubstituteLenient(script, kwargs, order) ==
    LET known == SelectSeq(order, LAMBDA n : n \in DOMAIN kwargs)
    IN [ok |-> TRUE, text |-> ReplaceAll(script, kwargs, known),
        missing |-> <<>>, provided |-> {}]

\* ok = FALSE stands for the ValueError; missing lists the names in the
\* error message, provided the keys of kwargs
substitute_placeholders(script, kwargs, order) ==
    LET placeholders == FindPlaceholders(script, 1)
        missing == SelectSeq2(placeholders, DOMAIN kwargs)
    IN
    IF placeholders = <<>>
    THEN [ok |-> TRUE, text |-> script, missing |-> <<>>, provided |-> {}]
    ELSE IF missing # <<>>
    THEN [ok |-> FALSE, text |-> <<>>, missing |-> missing,
          provided |-> DOMAIN kwargs]
    ELSE [ok |-> TRUE, text |-> ReplaceAll(script, kwargs, order),
          missing |-> <<>>, provided |-> {}]

PlaceholderOrders(script) == Orders(Range(FindPlaceholders(script, 1)))

(* ------------------------------------------------------------------ *)
(* /bin/sh -c script, as started by run_argv and run: the simple       *)
(* commands the shell runs, each a list of words.  dyn is set when the *)
(* text asks the shell for more than running words literally (a "$"    *)
(* outside single quotes, or a control operator); error is a syntax    *)
(* error (unterminated quote, empty command before ";").               *)
(* ------------------------------------------------------------------ *)
ShOperators == {"&", "|", "(", ")", "<", ">"}

ShDqEscapable == {"$", DQ, BS, NL}

ShEndWord(r) ==
    IF r.has
    THEN [r EXCEPT !.words = Append(r.words, r.word), !.word = <<>>,
                   !.has = FALSE]
    ELSE r

ShEndCmd(r) ==
    LET w == ShEndWord(r) IN
    IF w.words # <<>>
    THEN [w EXCEPT !.cmds = Append(w.cmds, w.words), !.words = <<>>]
    ELSE w

RECURSIVE ShSkipComment(_, _)
ShSkipComment(s, k) ==
    IF k <= Len(s) /\ s[k] # NL THEN ShSkipComment(s, k + 1) ELSE k

RECURSIVE ShScan(_, _, _, _)
ShScan(s, k, st, r) ==
    IF k > Len(s) THEN
        IF st \in {"sq", "dq"} THEN [ShEndCmd(r) EXCEPT !.error = TRUE]
        ELSE ShEndCmd(r)
    ELSE
      LET c == s[k]
          put == [r EXCEPT !.word = Append(r.word, c), !.has = TRUE]
      IN
      CASE st = "n" ->
             IF c \in Blanks THEN ShScan(s, k + 1, "n", ShEndWord(r))
             ELSE IF c = NL THEN ShScan(s, k + 1, "n", ShEndCmd(r))
             ELSE IF c = ";" THEN
                 ShScan(s, k + 1, "n",
                        [ShEndCmd(r) EXCEPT
                            !.error = r.error \/ ShEndWord(r).words = <<>>])
             ELSE IF c \in ShOperators THEN
                 ShScan(s, k + 1, "n", [ShEndCmd(r) EXCEPT !.dyn = TRUE])
             ELSE IF c = "#" /\ ~r.has THEN
                 ShScan(s, ShSkipComment(s, k), "n", r)
             ELSE IF c = BS THEN
                 IF k + 1 > Len(s) THEN ShScan(s, k + 1, "n", put)
                 ELSE IF s[k + 1] = NL THEN ShScan(s, k + 2, "n", r)
                 ELSE ShScan(s, k + 2, "n",
                             [r EXCEPT !.word = Append(r.word, s[k + 1]),
                                       !.has = TRUE])
             ELSE IF c = SQ THEN
                 ShScan(s, k + 1, "sq", [r EXCEPT !.has = TRUE])
             ELSE IF c = DQ THEN
                 ShScan(s, k + 1, "dq", [r EXCEPT !.has = TRUE])
             ELSE IF c = "$" THEN
                 ShScan(s, k + 1, "n", [put EXCEPT !.dyn = TRUE])
             ELSE ShScan(s, k + 1, "n", put)
        [] st = "sq" ->
             IF c = SQ THEN ShScan(s, k + 1, "n", r)
             ELSE ShScan(s, k + 1, "sq", put)
        [] OTHER ->
             IF c = DQ THEN ShScan(s, k + 1, "n", r)
             ELSE IF c = BS /\ k + 1 <= Len(s) /\ s[k + 1] \in ShDqEscapable
             THEN IF s[k + 1] = NL THEN ShScan(s, k + 2, "dq", r)
                  ELSE ShScan(s, k + 2, "dq",
                              [r EXCEPT !.word = Append(r.word, s[k + 1])])
             ELSE IF c = "$" THEN
                 ShScan(s, k + 1, "dq", [put EXCEPT !.dyn = TRUE])
             ELSE ShScan(s, k + 1, "dq", put)

ShellRun(script) ==
    ShScan(script, 1, "n",
           [word |-> <<>>, has |-> FALSE, words |-> <<>>, cmds |-> <<>>,
            dyn |-> FALSE, error |-> FALSE])

(* ------------------------------------------------------------------ *)
(* is_quote_balanced: the state in which the character at position p   *)
(* is read (scanning from position k in state st)                      *)
(* ------------------------------------------------------------------ *)
RECURSIVE QuoteStateFrom(_, _, _, _)
QuoteStateFrom(text, k, st, p) ==
    IF k >= p THEN (IF k = p THEN st ELSE "DOUBLE_QUOTE")
    ELSE
      LET ch == text[k] IN
      CASE st = "ESCAPE" -> QuoteStateFrom(text, k + 1, "NORMAL", p)
        [] st = "NORMAL" ->
             QuoteStateFrom(text, k + 1,
                            IF ch = BS THEN "ESCAPE"
                            ELSE IF ch = SQ THEN "SINGLE_QUOTE"
                            ELSE IF ch = DQ THEN "DOUBLE_QUOTE"
                            ELSE "NORMAL", p)
        [] st = "SINGLE_QUOTE" ->
             QuoteStateFrom(text, k + 1,
                            IF ch = SQ THEN "NORMAL" ELSE "SINGLE_QUOTE", p)
        [] OTHER ->
             IF ch = BS THEN
                 IF k + 1 <= Len(text)
                 THEN QuoteStateFrom(text, k + 2, "DOUBLE_QUOTE", p)
                 ELSE QuoteStateFrom(text, k + 1, "DOUBLE_QUOTE", p)
             ELSE QuoteStateFrom(text, k + 1,
                                 IF ch = DQ THEN "NORMAL" ELSE "DOUBLE_QUOTE",
                                 p)

QuoteStateAt(text, p) == QuoteStateFrom(text, 1, "NORMAL", p)

is_quote_balanced(text) == QuoteStateAt(text, Len(text) + 1) = "NORMAL"

(* ------------------------------------------------------------------ *)
(* Inputs of the compiler functions                                    *)
(* ------------------------------------------------------------------ *)
EchoBody == <<"e","c","h","o"," ","{","m","}">>

ChainBody == <<"@","t"," ","{","x","}">>

EchoWord == <<"e","c","h","o">>

\* "; echo HACKED; #   (test_substitute_placeholders_injection_safe)
HackedValue ==
    <<DQ,";"," ","e","c","h","o"," ","H","A","C","K","E","D",";"," ","#">>

ExampleValues ==
    {HackedValue,
     <<"$","(","a",")">>,
     <<"{","m","}">>,
     <<"a",";","e","c","h","o"," ","H","A","C","K","E","D">>,
     <<"a",SQ,";","e","c","h","o"," ","b",";",SQ>>}

Values == StringsUpTo(MaxLen) \cup ExampleValues

\* echo "test @s; @b"   (test_parse_alias_script_quote_aware)
EchoQuoted ==
    <<"e","c","h","o"," ",DQ,"t","e","s","t"," ","@","s",";"," ","@","b",DQ>>

\* @t "a;b"
CallQuotedSemicolon == <<"@","t"," ",DQ,"a",";","b",DQ>>

\* @t "x @y"
CallQuotedAt == <<"@","t"," ",DQ,"x"," ","@","y",DQ>>

\* @t 'x;y'; echo 'a; @b; c'
CallThenQuotedLiteral ==
    <<"@","t"," ",SQ,"x",";","y",SQ,";"," ","e","c","h","o"," ",
      SQ,"a",";"," ","@","b",";"," ","c",SQ>>

\* @t ';';';'
CallThenQuotedSeparator == <<"@","t"," ",SQ,";",SQ,";",SQ,";",SQ>>

ExampleScripts ==
    {EchoQuoted, CallQuotedSemicolon, CallQuotedAt, CallThenQuotedLiteral,
     CallThenQuotedSeparator}

\* argument texts that a double-quoted word holds unchanged
ArgWords ==
    {w \in StringsUpTo(MaxLen - 1) : Chars(w) \cap {DQ, BS, "$"} = {}}

QuotedCall(w) == <<"@","t"," ",DQ>> \o w \o <<DQ>>

\* alias names made of identifier characters
Names == {<<"a">>, <<"b">>, <<"_","9">>}

NameSeqs == UNION {[1..k -> Names] : k \in 1..MaxChain}

\* the calls @n1 ... @nk joined by sep
RECURSIVE ChainScript(_, _)
ChainScript(ns, sep) ==
    IF Len(ns) = 1 THEN <<"@">> \o ns[1]
    ELSE <<"@">> \o ns[1] \o sep \o ChainScript(Tail(ns), sep)

SemiChain(ns) == ChainScript(ns, <<";", " ">>)

BlankChain(ns) == ChainScript(ns, <<" ">>)

ChainScripts == {SemiChain(ns) : ns \in NameSeqs} \cup {BlankChain(ns) : ns \in NameSeqs}

\* texts without quote or backslash
PlainWords ==
    {w \in StringsUpTo(MaxLen - 1) : Chars(w) \cap {SQ, DQ, BS} = {}}

\* @t 'w  : the quote of the argument is never closed
UnterminatedCall(w) == <<"@","t"," ",SQ>> \o w

Scripts ==
    StringsUpTo(MaxLen) \cup ExampleScripts \cup {QuotedCall(w) : w \in ArgWords}
        \cup ChainScripts \cup {UnterminatedCall(w) : w \in PlainWords}

(* ------------------------------------------------------------------ *)
(* State                                                               *)
(* ------------------------------------------------------------------ *)
VARIABLES
    input,      \* the value or script handed to the compiler functions
    phase,      \* which compiler function has been applied
    rendered,   \* rendered_script of _execute_alias_script
    lex,        \* loop variables of parse_alias_script
    segments,   \* the list returned by parse_alias_script
    procs,      \* child processes started by the current command
    aliases,    \* the alias store of the panel: name -> body
    stack,      \* Kernel._alias_expansion_stack
    frames,     \* active calls of _execute_alias_script, outermost first
    kpc,        \* "idle", "running" or "raising" (an exception propagates)
    events,     \* events recorded by the current command
    cmd,        \* the command line being handled, or handled last
    result,     \* what the last finished command returned
    ncmd,       \* number of command lines handled so far
    children,   \* the child processes of the current command, in start order
    kwargs,     \* the named map handed to substitute_placeholders
    subst,      \* what substitute_placeholders returned or raised
    call,       \* the executor method called and its configuration
    proc,       \* the child process of the executor call
    capture,    \* cap_out, cap_err, out_bytes, err_bytes, truncated
    thread,     \* the calling thread and the two reader threads
    now,        \* time.time() since the call started, in 1/100 s
    ret         \* the result the executor call returned

compilerVars == <<input, phase, rendered, lex, segments, kwargs, subst>>

kernelVars == <<aliases, stack, frames, kpc, events, cmd, result, ncmd,
                children>>

executorVars == <<call, proc, capture, thread, now, ret>>

vars == <<input, phase, rendered, lex, segments, procs,
          aliases, stack, frames, kpc, events, cmd, result, ncmd, children,
          kwargs, subst, call, proc, capture, thread, now, ret>>

NoResult == [out |-> <<>>, entered |-> FALSE]

NoSubst == [ok |-> TRUE, text |-> <<>>, missing |-> <<>>, provided |-> {}]

\* the variables of SpecBind before it has acted, and in the other
\* specifications
BinderUnused == kwargs = NoKwargs /\ subst = NoSubst

KernelUnused ==
    /\ aliases = <<>>
    /\ stack = <<>>
    /\ frames = <<>>
    /\ kpc = "idle"
    /\ events = <<>>
    /\ cmd = <<>>
    /\ result = NoResult
    /\ ncmd = 0
    /\ children = <<>>

NoCall == [mode |-> "none", timeout |-> 0, max_capture_bytes |-> 0]

NoProc == [state |-> "none", spawn |-> "ok", code |-> 0,
           onTerm |-> "dies", holds |-> FALSE,
           towrite |-> <<>>, wrote |-> <<>>, out |-> <<>>, err |-> <<>>,
           endedAt |-> 0, signals |-> <<>>]

NoCapture == [out |-> <<>>, err |-> <<>>, out_bytes |-> 0, err_bytes |-> 0,
              truncated |-> FALSE, seen_out |-> <<>>, seen_err |-> <<>>,
              active_out |-> {}, active_err |-> {}]

NoThread == [pc |-> "none", timed_out |-> FALSE, stop_event |-> FALSE,
             t_out |-> "none", t_err |-> "none", returncode |-> <<>>,
             line |-> <<>>, line_err |-> <<>>]

NoReturn == [returned |-> FALSE, raised |-> FALSE, exit_code |-> 0,
             stdout |-> <<>>, stderr |-> <<>>, stdout_bytes |-> 0,
             stderr_bytes |-> 0, at |-> 0]

\* the variables of SpecExec in the other specifications
ExecutorUnused ==
    /\ call = NoCall
    /\ proc = NoProc
    /\ capture = NoCapture
    /\ thread = NoThread
    /\ now = 0
    /\ ret = NoReturn

Proc(script, posargs) == [script |-> script, posargs |-> posargs]

\* the literal segments, as _execute_alias_script hands them to
\* _execute_script_segment
RECURSIVE LiteralProcs(_, _)
LiteralProcs(segs, posargs) ==
    IF segs = <<>> THEN <<>>
    ELSE IF Head(segs).type = "literal"
         THEN <<Proc(Head(segs).content, posargs)>>
                  \o LiteralProcs(Tail(segs), posargs)
         ELSE LiteralProcs(Tail(segs), posargs)

OneKwarg(name, value) == [n \in {name} |-> value]

(* ------------------------------------------------------------------ *)
(* SpecSubst: substitution, segmentation and execution of one body     *)
(* ------------------------------------------------------------------ *)
InitSubst ==
    /\ input \in Values
    /\ phase = "start"
    /\ rendered = <<>>
    /\ lex = LexInit
    /\ segments = <<>>
    /\ procs = <<>>
    /\ KernelUnused
    /\ BinderUnused
    /\ ExecutorUnused

\* _execute_alias_script on body with kwargs {name: input}
RenderAndRun(body, name, next) ==
    /\ phase = "start"
    /\ \E order \in PlaceholderOrders(body) :
         LET sub == substitute_placeholders(body, OneKwarg(name, input), order)
         IN /\ sub.ok
            /\ rendered' = sub.text
            /\ lex' = LexFinal(sub.text)
            /\ segments' = parse_alias_script(sub.text)
            /\ procs' = LiteralProcs(parse_alias_script(sub.text), <<>>)
    /\ phase' = next
    /\ UNCHANGED <<input, kernelVars, executorVars, kwargs, subst>>

SubstituteEcho == RenderAndRun(EchoBody, <<"m">>, "echo")

SubstituteChain == RenderAndRun(ChainBody, <<"x">>, "chain")

NextSubst == SubstituteEcho \/ SubstituteChain

SpecSubst == InitSubst /\ [][NextSubst]_vars

(* ------------------------------------------------------------------ *)
(* SpecParse: parse_alias_script, one loop iteration per step          *)
(* ------------------------------------------------------------------ *)
InitParse ==
    /\ input \in Scripts
    /\ phase = "lexing"
    /\ rendered = <<>>
    /\ lex = LexInit
    /\ segments = <<>>
    /\ procs = <<>>
    /\ KernelUnused
    /\ BinderUnused
    /\ ExecutorUnused

\* an iteration whose ESCAPE branch does not advance the position
LexIterateStuck ==
    /\ phase = "lexing"
    /\ lex.i <= Len(input)
    /\ lex' = [LexStep(input, lex) EXCEPT
                  !.i = IF lex.state = "ESCAPE" THEN lex.i ELSE @]
    /\ UNCHANGED <<input, phase, rendered, segments, procs, kernelVars, executorVars, kwargs,
                   subst>>

LexIterate ==
    /\ phase = "lexing"
    /\ lex.i <= Len(input)
    /\ lex' = LexStep(input, lex)
    /\ UNCHANGED <<input, phase, rendered, segments, procs, kernelVars, executorVars, kwargs,
                   subst>>

LexReturn ==
    /\ phase = "lexing"
    /\ lex.i > Len(input)
    /\ lex' = [lex EXCEPT !.segs = FlushLiteral(lex.segs, lex.cur),
                          !.cur = <<>>]
    /\ segments' = lex'.segs
    /\ phase' = "parsed"
    /\ UNCHANGED <<input, rendered, procs, kernelVars, executorVars, kwargs, subst>>

NextParse == LexIterate \/ LexReturn

SpecParse == InitParse /\ [][NextParse]_vars

\* the loop of parse_alias_script runs on until it returns
SpecParseFair == SpecParse /\ WF_vars(NextParse)

(* ------------------------------------------------------------------ *)
(* SpecBind: substitute_placeholders on a template and a named map     *)
(* ------------------------------------------------------------------ *)
\* the pieces the templates are made of
Pieces ==
    {<<"{","x","}">>, <<"{","y","}">>, <<"{","_","1","}">>, <<"{","1","}">>,
     <<"{","}">>, <<"{">>, <<"}">>, <<"a">>, <<" ">>}

RECURSIVE Concat(_)
Concat(parts) == IF parts = <<>> THEN <<>> ELSE Head(parts) \o Concat(Tail(parts))

Templates == {Concat(ps) : ps \in UNION {[1..k -> Pieces] : k \in 0..MaxPieces}}

Keys == {<<"x">>, <<"y">>, <<"_","1">>, <<"z">>}

\* the values of kwargs: a plain word, and a value that is itself the text
\* of a placeholder
KwargValues == {<<"v">>, <<"{","y","}">>}

KwargMaps == UNION {[ks -> KwargValues] : ks \in SUBSET Keys}

InitBind ==
    /\ input \in Templates
    /\ phase = "start"
    /\ rendered = <<>>
    /\ lex = LexInit
    /\ segments = <<>>
    /\ procs = <<>>
    /\ KernelUnused
    /\ BinderUnused
    /\ ExecutorUnused

\* the try statement around substitute_placeholders in _execute_alias_script
Substitute ==
    /\ phase = "start"
    /\ \E kw \in KwargMaps, order \in PlaceholderOrders(input) :
         /\ kwargs' = kw
         /\ subst' = substitute_placeholders(input, kw, order)
    /\ rendered' = subst'.text
    /\ phase' = "substituted"
    /\ UNCHANGED <<input, lex, segments, procs, kernelVars, executorVars>>

NextBind == Substitute

SpecBind == InitBind /\ [][NextBind]_vars

(* ------------------------------------------------------------------ *)
(* Claims about substitution and segmentation                          *)
(* ------------------------------------------------------------------ *)
ShellOutcome(script) ==
    LET r == ShellRun(script)
    IN [cmds |-> r.cmds, dyn |-> r.dyn, error |-> r.error]

\* C1: for every value v, substituting v into the body "echo {m}" and
\* segmenting the result gives exactly one Literal segment, and the shell
\* that executes it runs the single command echo with v as its one
\* literal argument word: no expansion, no second command, no syntax error.
C1_InjectionSafe ==
    phase = "echo" =>
        /\ Len(segments) = 1
        /\ segments[1].type = "literal"
        /\ procs = <<Proc(segments[1].content, <<>>)>>
        /\ ShellOutcome(procs[1].script) =
               [cmds |-> << <<EchoWord, input>> >>, dyn |-> FALSE,
                error |-> FALSE]

C1_Witness ==
    /\ phase = "echo"
    /\ input = HackedValue
    /\ ShellOutcome(procs[1].script).cmds = << <<EchoWord, HackedValue>> >>

\* C2: for every value v of x, the substituted body "@t {x}" segments to
\* exactly one AliasCall segment for t with argument list [v] and to no
\* Literal segment, so that nothing of v reaches a shell as command text.
C2_ChainArgLiteral ==
    phase = "chain" =>
        /\ segments = <<AliasCall(<<"t">>, <<input>>)>>
        /\ procs = <<>>

InQuotedSpan(text, p) ==
    QuoteStateAt(text, p) \in {"SINGLE_QUOTE", "DOUBLE_QUOTE"}

TrueSeparator(text, p) ==
    text[p] \in Separators /\ QuoteStateAt(text, p) = "NORMAL"

InLiteralCommand(text, p) ==
    LET before == {q \in 1..(p - 1) : TrueSeparator(text, q)}
        start == IF before = {} THEN 1
                 ELSE 1 + CHOOSE q \in before : \A r \in before : r <= q
        first == SkipBlanks(text, start)
    IN ~(first <= Len(text) /\ text[first] = "@")

\* C3: a ";", newline or "@" inside a quoted span of a literal command
\* (a command whose first character is not "@") is never consumed as a
\* command separator and never starts an alias call; the script
\* echo "test @s; @b" is one Literal segment.
C3_QuotedNeverSplits ==
    phase = "parsed" =>
        /\ \A p \in lex.seps \cup lex.calls :
               ~(InQuotedSpan(input, p) /\ InLiteralCommand(input, p))
        /\ input = EchoQuoted => segments = <<Literal(EchoQuoted)>>

\* C4: the arguments of an alias call are tokenized with shell quoting:
\* for every text w without double quote, backslash or "$", the script
\* @t "w" is one AliasCall segment for t with the single argument w, also
\* when w holds ";", a newline or a blank followed by "@".
C4_QuotedArgument ==
    phase = "parsed" =>
        /\ \A w \in ArgWords :
               input = QuotedCall(w) =>
                   segments = <<AliasCall(<<"t">>, <<w>>)>>
        /\ input = CallQuotedSemicolon =>
               segments = <<AliasCall(<<"t">>, << <<"a",";","b">> >>)>>
        /\ input = CallQuotedAt =>
               segments = <<AliasCall(<<"t">>, << <<"x"," ","@","y">> >>)>>

\* C12: for every sequence n1..nk of alias names, the scripts
\* "@n1; @n2; ...; @nk" and "@n1 @n2 ... @nk" both segment to the k
\* AliasCall segments n1..nk in this order, each with an empty argument
\* list, and to no Literal segment.
C12_ChainingEquivalence ==
    phase = "parsed" =>
        \A ns \in NameSeqs :
            input \in {SemiChain(ns), BlankChain(ns)} =>
                segments = [n \in 1..Len(ns) |-> AliasCall(ns[n], <<>>)]

C12_Witness ==
    /\ phase = "parsed"
    /\ input = BlankChain(<< <<"a">>, <<"_","9">>, <<"b">> >>)
    /\ segments = <<AliasCall(<<"a">>, <<>>), AliasCall(<<"_","9">>, <<>>),
                    AliasCall(<<"b">>, <<>>)>>

\* a literal shell text: not blank, its first non-blank character is not
\* "@", its quotes are balanced and it has no unquoted, unescaped ";" or
\* newline
LiteralText(text) ==
    /\ Strip(text) # <<>>
    /\ Head(Strip(text)) # "@"
    /\ is_quote_balanced(text)
    /\ \A p \in 1..Len(text) : ~TrueSeparator(text, p)

\* C13: for every literal shell text s (see LiteralText) the segmenter
\* returns exactly one Literal segment, whose content is s without its
\* leading and trailing whitespace, character for character.
C13_LiteralRoundTrip ==
    (phase = "parsed" /\ LiteralText(input)) =>
        segments = <<Literal(Strip(input))>>

C13_Witness ==
    /\ phase = "parsed"
    /\ input = <<SQ, ";", SQ>>
    /\ LiteralText(input)
    /\ segments = <<Literal(<<SQ, ";", SQ>>)>>

CountSeparators(text) ==
    Cardinality({p \in 1..Len(text) : text[p] \in Separators})

\* the number of ";" and newline characters in a list of texts
RECURSIVE SeparatorsIn(_)
SeparatorsIn(texts) ==
    IF texts = <<>> THEN 0
    ELSE CountSeparators(Head(texts)) + SeparatorsIn(Tail(texts))

RECURSIVE SegmentSeparators(_)
SegmentSeparators(segs) ==
    IF segs = <<>> THEN 0
    ELSE CountSeparators(Head(segs).content) + SeparatorsIn(Head(segs).args)
             + SegmentSeparators(Tail(segs))

\* C14: in every returned segment list no Literal segment is empty after
\* trimming, and no ";" or newline that was consumed as a separator went
\* into a segment: its position was copied into no segment text, and the
\* segments hold at most the separators of the input that were not
\* consumed.
C14_SegmentInvariant ==
    phase = "parsed" =>
        /\ \A n \in 1..Len(segments) :
               segments[n].type = "literal" => Strip(segments[n].content) # <<>>
        /\ lex.seps \cap lex.used = {}
        /\ SegmentSeparators(segments)
               <= CountSeparators(input) - Cardinality(lex.seps)

C14_Witness ==
    /\ phase = "parsed"
    /\ input = <<";", "a", "\n">>
    /\ lex.seps = {1, 3}
    /\ segments = <<Literal(<<"a">>)>>

\* C15: for every input the scan position stays within the script, every
\* loop iteration moves it forward, and the segmenter returns its list.
C15_SegmenterTerminates ==
    /\ [](lex.i \in 1..(Len(input) + 1))
    /\ [][phase' = "lexing" => lex'.i > lex.i]_vars
    /\ <>(phase = "parsed")

\* malformed quoting in the arguments of an alias call
C15_Witness ==
    /\ phase = "parsed"
    /\ input = <<"@", "a", SQ>>
    /\ segments = <<Literal(<<"@", "a", SQ>>)>>

\* C16: when the arguments of an alias call open a quote that is never
\* closed, everything from the "@" to the end of the script is one Literal
\* segment: no later ";" or newline is consumed as a separator and no
\* later "@name" becomes an alias call.
C16_MalformedRestLiteral ==
    phase = "parsed" =>
        \A w \in PlainWords :
            input = UnterminatedCall(w) =>
                /\ lex.seps = {}
                /\ lex.calls = {}
                /\ segments = <<Literal(Strip(input))>>

\* the identifiers of the "{identifier}" tokens of a script
PlaceholderTokens(script) ==
    {SubSeq(script, a + 1, b - 1) :
        <<a, b>> \in {<<a, b>> \in (1..Len(script)) \X (1..Len(script)) :
                         /\ a + 1 < b
                         /\ script[a] = "{"
                         /\ script[b] = "}"
                         /\ script[a + 1] \in IdentStart
                         /\ \A c \in (a + 1)..(b - 1) : script[c] \in IdentChars}}

\* C17: substitution fails exactly when some "{identifier}" token of the
\* script has no key in the named map; the error then names all those
\* identifiers, names no identifier that has a key, and lists the keys of
\* the map as provided.
C17_MissingPlaceholders ==
    phase = "substituted" =>
        LET unbound == PlaceholderTokens(input) \ DOMAIN kwargs IN
        /\ ~subst.ok <=> unbound # {}
        /\ ~subst.ok =>
               /\ Range(subst.missing) = unbound
               /\ subst.provided = DOMAIN kwargs

C17_Witness ==
    /\ phase = "substituted"
    /\ input = <<"{","x","}","{","y","}","{","_","1","}">>
    /\ DOMAIN kwargs = {<<"x">>, <<"z">>}
    /\ ~subst.ok
    /\ subst.missing = << <<"y">>, <<"_","1">> >>
    /\ subst.provided = {<<"x">>, <<"z">>}

(* ------------------------------------------------------------------ *)
(* Kernel: the alias expansion engine                                  *)
(* ------------------------------------------------------------------ *)
max_alias_depth == 10

\* one line of the text a call returns; detail is a list of strings
Line(kind, detail) == [kind |-> kind, detail |-> detail]

DepthError(stk) == Line("depth", stk)

CycleError(stk, name) == Line("cycle", Append(stk, name))

MissingError(names) == Line("missing", names)

NotFoundError(name) == Line("notfound", <<name>>)

RunOutput(script) == Line("run", <<script>>)

RecordFailed == Line("recordfail", <<>>)

ExceptionRaised == Line("exception", <<>>)

RECURSIVE Join(_, _)
Join(parts, sep) ==
    IF parts = <<>> THEN <<>>
    ELSE IF Len(parts) = 1 THEN parts[1]
    ELSE parts[1] \o sep \o Join(Tail(parts), sep)

\* store.find_alias(panel, name): the body, or None
find_alias(store, name) ==
    IF name \in DOMAIN store
    THEN [found |-> TRUE, body |-> store[name]]
    ELSE [found |-> FALSE, body |-> <<>>]

\* the two checks that open _execute_alias_with_args
CallOutcomeDepthOff(stk, name) ==
    IF Len(stk) > max_alias_depth THEN "depth"
    ELSE IF name \in Range(stk) THEN "cycle"
    ELSE "push"

CallOutcomeNoCycle(stk, name) ==
    IF Len(stk) >= max_alias_depth THEN "depth" ELSE "push"

CallOutcome(stk, name) ==
    IF Len(stk) >= max_alias_depth THEN "depth"
    ELSE IF name \in Range(stk) THEN "cycle"
    ELSE "push"

CallError(stk, name) ==
    IF CallOutcome(stk, name) = "depth" THEN DepthError(stk)
    ELSE CycleError(stk, name)

\* self._alias_expansion_stack.pop() of the finally clause
KeepStack(stk) == stk

PopStack(stk) == SubSeq(stk, 1, Len(stk) - 1)

NewFrame(name, body, args, raw) ==
    [name |-> name, body |-> body, args |-> args, raw |-> raw,
     pc |-> "start", resolved |-> <<>>, segs |-> <<>>, idx |-> 1,
     posargs |-> <<>>, outputs |-> <<>>]

Top == frames[Len(frames)]

SetTop(f) == [frames EXCEPT ![Len(frames)] = f]

AtSegment(type) ==
    /\ kpc = "running"
    /\ Top.pc = "segs"
    /\ Top.idx <= Len(Top.segs)
    /\ Top.segs[Top.idx].type = type

(* ---------------- stores and command lines ---------------- *)
ChainNames == <<"a","b","c","d","e","f","g","h","i","j","k">>

EchoDone == <<"e","c","h","o"," ","d","o","n","e">>

IndexOf(name) == CHOOSE i \in 1..Len(ChainNames) : ChainNames[i] = name[1]

\* n aliases, each calling the next, the last one a plain command
ChainStore(n) ==
    [name \in {<<ChainNames[i]>> : i \in 1..n} |->
        IF IndexOf(name) < n
        THEN <<"@", ChainNames[IndexOf(name) + 1]>>
        ELSE EchoDone]

\* n aliases, each calling the next, the last one calling the first
LoopStore(n) ==
    [name \in {<<ChainNames[i]>> : i \in 1..n} |->
        <<"@", ChainNames[(IndexOf(name) % n) + 1]>>]

\* ten aliases in a chain; the tenth calls an eleventh, then runs a command
DeepSiblingStore ==
    [name \in {<<ChainNames[i]>> : i \in 1..11} |->
        IF IndexOf(name) < 10
        THEN <<"@", ChainNames[IndexOf(name) + 1]>>
        ELSE IF IndexOf(name) = 10 THEN <<"@","k",";","e","c","h","o"," ","z">>
        ELSE EchoDone]

\* m = @x; echo 1; @p; echo 2; @m; echo 3      (x is not stored)
\* p = echo {q}; @m
\* say = echo {m}; echo {c}
\* w = @say m=a; echo w
\* top = echo 0; @say m=a c=b; echo 9
MixedStore ==
    [name \in {<<"m">>, <<"p">>, <<"s","a","y">>, <<"w">>, <<"t","o","p">>} |->
        IF name = <<"m">> THEN
            <<"@","x",";"," ","e","c","h","o"," ","1",";"," ","@","p",";",
              " ","e","c","h","o"," ","2",";"," ","@","m",";"," ",
              "e","c","h","o"," ","3">>
        ELSE IF name = <<"p">> THEN
            <<"e","c","h","o"," ","{","q","}",";"," ","@","m">>
        ELSE IF name = <<"s","a","y">> THEN
            <<"e","c","h","o"," ","{","m","}",";"," ",
              "e","c","h","o"," ","{","c","}">>
        ELSE IF name = <<"w">> THEN
            <<"@","s","a","y"," ","m","=","a",";"," ","e","c","h","o"," ","w">>
        ELSE <<"e","c","h","o"," ","0",";"," ","@","s","a","y"," ","m","=","a",
               " ","c","=","b",";"," ","e","c","h","o"," ","9">>]

Stores ==
    {ChainStore(10), ChainStore(11), LoopStore(1), LoopStore(2),
     LoopStore(10), DeepSiblingStore, MixedStore}

\* positional values that a shell would take apart if they were script text
SpacedValue == <<"a", " ", "b">>

ShellValue == <<"x", ";", "$", "(", "y", ")", SQ>>

InvocationArgs ==
    {<<>>, << <<"m","=","a">> >>, << <<"m","=","a">>, <<"c","=","b">> >>,
     <<SpacedValue, ShellValue>>,
     << <<"m","=","a">>, ShellValue, <<"c","=","b">> >>}

(* ---------------- Spec: the kernel handles command lines ---------------- *)
Init ==
    /\ input = <<>>
    /\ phase = "kernel"
    /\ rendered = <<>>
    /\ lex = LexInit
    /\ segments = <<>>
    /\ procs = <<>>
    /\ BinderUnused
    /\ ExecutorUnused
    /\ aliases \in Stores
    /\ stack = <<>>
    /\ frames = <<>>
    /\ kpc = "idle"
    /\ events = <<>>
    /\ cmd = <<>>
    /\ result = NoResult
    /\ ncmd = 0
    /\ children = <<>>

\* the text handed back to the caller of handle_command; entered tells
\* whether the top-level call got past the depth and cycle checks
Finished(out, entered) == [out |-> out, entered |-> entered]

\* handle_command on a line whose first token is a stored alias
HandleCommand(name, args) ==
    /\ kpc = "idle"
    /\ ncmd < MaxCommands
    /\ ncmd' = ncmd + 1
    /\ find_alias(aliases, name).found
    /\ cmd' = <<name>> \o args
    /\ procs' = <<>>
    /\ events' = <<>>
    /\ children' = <<>>
    /\ IF CallOutcome(stack, name) = "push"
       THEN /\ stack' = Append(stack, name)
            /\ frames' = <<NewFrame(name, find_alias(aliases, name).body, args,
                                    Join(<<name>> \o args, <<" ">>))>>
            /\ kpc' = "running"
            /\ result' = NoResult
       ELSE /\ result' = Finished(<<CallError(stack, name)>>, FALSE)
            /\ UNCHANGED <<stack, frames, kpc>>
    /\ UNCHANGED <<executorVars, compilerVars, aliases>>

\* _execute_alias_script up to the segment loop
BindAndParse ==
    /\ kpc = "running"
    /\ Top.pc = "start"
    /\ \E order \in PlaceholderOrders(Top.body) :
         LET bound == extract_kwargs_and_posargs(Top.args)
             sub == substitute_placeholders(Top.body, bound.kwargs, order)
             segs == parse_alias_script(sub.text)
         IN frames' = SetTop(
              IF ~sub.ok
              THEN [Top EXCEPT !.pc = "ret",
                               !.outputs = <<MissingError(sub.missing)>>]
              ELSE IF segs = <<>>
              THEN [Top EXCEPT !.pc = "ret", !.resolved = sub.text]
              ELSE [Top EXCEPT !.pc = "segs", !.resolved = sub.text,
                               !.segs = segs, !.posargs = bound.posargs])
    /\ UNCHANGED <<executorVars, compilerVars, procs, aliases, stack, kpc, events, cmd,
                   result, ncmd, children>>

\* the segment indexes of the active calls, outermost first
CallPath == [n \in 1..Len(frames) |-> frames[n].idx]

Child(path, state) == [path |-> path, state |-> state]

SetLast(seq, x) == [seq EXCEPT ![Len(seq)] = x]

\* a start that does not wait for the child
ExecStartDetached ==
    /\ AtSegment("literal")
    /\ procs' = Append(procs, Proc(Top.segs[Top.idx].content, Top.posargs))
    /\ children' = Append(children, Child(CallPath, "running"))
    /\ frames' = SetTop([Top EXCEPT !.idx = Top.idx + 1])
    /\ UNCHANGED <<executorVars, compilerVars, aliases, stack, kpc, events, cmd, result, ncmd>>

\* a start that pastes the positional arguments into the script text
ExecStartSpliced ==
    /\ AtSegment("literal")
    /\ procs' = Append(procs,
                       Proc(Join(<<Top.segs[Top.idx].content>> \o Top.posargs,
                                 <<" ">>),
                            <<>>))
    /\ children' = Append(children, Child(CallPath, "running"))
    /\ frames' = SetTop([Top EXCEPT !.pc = "child"])
    /\ UNCHANGED <<executorVars, compilerVars, aliases, stack, kpc, events, cmd, result, ncmd>>

\* a literal segment: _execute_script_segment calls the executor, which
\* starts the child and blocks
ExecStart ==
    /\ AtSegment("literal")
    /\ procs' = Append(procs, Proc(Top.segs[Top.idx].content, Top.posargs))
    /\ children' = Append(children, Child(CallPath, "running"))
    /\ frames' = SetTop([Top EXCEPT !.pc = "child"])
    /\ UNCHANGED <<executorVars, compilerVars, aliases, stack, kpc, events, cmd, result, ncmd>>

\* the executor returns, after the child has exited or after the timeout
\* path has killed it; the result is handed to store.record_event, whose
\* failure is caught
ExecLiteral ==
    /\ kpc = "running"
    /\ Top.pc = "child"
    /\ \E how \in {"exited", "killed"} :
         children' = SetLast(children, Child(CallPath, how))
    /\ \E recorded \in BOOLEAN :
         /\ events' = IF recorded
                      THEN Append(events, [raw |-> Top.raw,
                                           resolved |-> Top.resolved])
                      ELSE events
         /\ frames' = SetTop(
              [Top EXCEPT !.pc = "segs",
                          !.idx = Top.idx + 1,
                          !.outputs =
                              Top.outputs
                              \o (IF recorded THEN <<>> ELSE <<RecordFailed>>)
                              \o <<RunOutput(Top.segs[Top.idx].content)>>])
    /\ UNCHANGED <<executorVars, compilerVars, procs, aliases, stack, kpc, cmd, result, ncmd>>

\* an exception leaves the executor call; the buffered executor has killed
\* the child, the streaming one has not
ExecRaises ==
    /\ kpc = "running"
    /\ Top.pc = "child"
    /\ kpc' = "raising"
    /\ \E how \in {"running", "killed"} :
         children' = SetLast(children, Child(CallPath, how))
    /\ UNCHANGED <<executorVars, compilerVars, procs, aliases, stack, frames, events, cmd,
                   result, ncmd>>

\* a lookup failure that ends the calling alias
ChainNotFoundAborts ==
    /\ AtSegment("alias")
    /\ ~find_alias(aliases, Top.segs[Top.idx].content).found
    /\ frames' = SetTop(
         [Top EXCEPT !.pc = "ret",
                     !.outputs =
                         Append(Top.outputs,
                                NotFoundError(Top.segs[Top.idx].content))])
    /\ UNCHANGED <<executorVars, compilerVars, procs, aliases, stack, kpc, events, cmd,
                   result, ncmd, children>>

\* an alias segment whose name is not stored
ChainNotFound ==
    /\ AtSegment("alias")
    /\ ~find_alias(aliases, Top.segs[Top.idx].content).found
    /\ frames' = SetTop(
         [Top EXCEPT !.idx = Top.idx + 1,
                     !.outputs =
                         Append(Top.outputs,
                                NotFoundError(Top.segs[Top.idx].content))])
    /\ UNCHANGED <<executorVars, compilerVars, procs, aliases, stack, kpc, events, cmd,
                   result, ncmd, children>>

\* an alias segment whose name is stored: _execute_alias_with_args
ChainCall ==
    /\ AtSegment("alias")
    /\ find_alias(aliases, Top.segs[Top.idx].content).found
    /\ LET seg == Top.segs[Top.idx]
           name == seg.content
       IN IF CallOutcome(stack, name) = "push"
          THEN /\ stack' = Append(stack, name)
               /\ frames' =
                    Append(frames,
                           NewFrame(name, find_alias(aliases, name).body,
                                    seg.args,
                                    Strip(<<"@">> \o name \o <<" ">>
                                          \o Join(seg.args, <<" ">>))))
          ELSE /\ frames' = SetTop(
                    [Top EXCEPT !.idx = Top.idx + 1,
                                !.outputs = Append(Top.outputs,
                                                   CallError(stack, name))])
               /\ UNCHANGED stack
    /\ UNCHANGED <<executorVars, compilerVars, procs, aliases, kpc, events, cmd, result, ncmd,
                   children>>

\* store.find_alias raises while resolving an alias segment
StoreRaises ==
    /\ AtSegment("alias")
    /\ kpc' = "raising"
    /\ UNCHANGED <<executorVars, compilerVars, procs, aliases, stack, frames, events, cmd,
                   result, ncmd, children>>

\* _execute_alias_script returns; the finally clause pops the stack
Return ==
    /\ kpc = "running"
    /\ Top.pc = "ret" \/ (Top.pc = "segs" /\ Top.idx > Len(Top.segs))
    /\ stack' = PopStack(stack)
    /\ UNCHANGED <<executorVars, compilerVars, procs, aliases, events, cmd, ncmd, children>>
    /\ IF Len(frames) = 1
       THEN /\ frames' = <<>>
            /\ kpc' = "idle"
            /\ result' = Finished(Top.outputs, TRUE)
       ELSE /\ frames' =
                 LET rest == SubSeq(frames, 1, Len(frames) - 1)
                     caller == rest[Len(rest)]
                 IN [rest EXCEPT ![Len(rest)] =
                        [caller EXCEPT !.idx = caller.idx + 1,
                                       !.outputs = caller.outputs \o Top.outputs]]
            /\ UNCHANGED <<kpc, result>>

\* an exception leaves one call; the finally clause pops the stack
Unwind ==
    /\ kpc = "raising"
    /\ stack' = PopStack(stack)
    /\ frames' = SubSeq(frames, 1, Len(frames) - 1)
    /\ UNCHANGED <<executorVars, compilerVars, procs, aliases, events, cmd, ncmd, children>>
    /\ IF Len(frames) = 1
       THEN /\ kpc' = "idle"
            /\ result' = Finished(<<ExceptionRaised>>, TRUE)
       ELSE UNCHANGED <<kpc, result>>

Next ==
    \/ \E name \in DOMAIN aliases, args \in InvocationArgs :
           HandleCommand(name, args)
    \/ BindAndParse
    \/ ExecStart
    \/ ExecLiteral
    \/ ExecRaises
    \/ ChainNotFound
    \/ ChainCall
    \/ StoreRaises
    \/ Return
    \/ Unwind

Spec == Init /\ [][Next]_vars

(* ------------------------------------------------------------------ *)
(* Claims about the expansion engine                                   *)
(* ------------------------------------------------------------------ *)
Kinds(out) == {out[n].kind : n \in 1..Len(out)}

WithoutRecordFailed(out) == SelectSeq(out, LAMBDA l : l.kind # "recordfail")

ChainTarget == Top.segs[Top.idx].content

\* C5: a chained call to an alias that is already on the call stack is
\* rejected with the cycle error that lists the stack followed by the
\* name; the call pushes nothing and starts no new expansion.
C5_CycleRejected ==
    [][(/\ AtSegment("alias")
        /\ find_alias(aliases, ChainTarget).found
        /\ ChainTarget \in Range(stack)
        /\ kpc' = "running")
       => (/\ stack' = stack
           /\ frames' = SetTop(
                [Top EXCEPT !.idx = Top.idx + 1,
                            !.outputs = Append(Top.outputs,
                                               CycleError(stack, ChainTarget))]))
      ]_vars

ChainStack(n) == [idx \in 1..n |-> <<ChainNames[idx]>>]

\* C6: with the depth limit at 10, the command a on a chain of exactly 10
\* aliases runs the body of the last alias and returns no depth error; on
\* a chain of 11 the call to the eleventh alias is answered with the
\* depth error and its body is not run.
C6_DepthLimit ==
    (kpc = "idle" /\ ncmd > 0 /\ cmd = << <<"a">> >>
        /\ result.out # <<ExceptionRaised>>) =>
        /\ aliases = ChainStore(10) =>
               /\ procs = <<Proc(EchoDone, <<>>)>>
               /\ WithoutRecordFailed(result.out) = <<RunOutput(EchoDone)>>
        /\ aliases = ChainStore(11) =>
               /\ procs = <<>>
               /\ result.out = <<DepthError(ChainStack(10))>>

C6_Witness ==
    /\ kpc = "idle"
    /\ aliases = ChainStore(10)
    /\ cmd = << <<"a">> >>
    /\ procs = <<Proc(EchoDone, <<>>)>>
    /\ result.out = <<RunOutput(EchoDone)>>

\* C7: in every state the expansion call stack holds no alias name twice
\* and at most max_alias_depth names.
C7_StackBounded ==
    /\ Len(stack) <= max_alias_depth
    /\ \A m, n \in 1..Len(stack) : m # n => stack[m] # stack[n]

C7_Witness ==
    /\ Len(stack) = max_alias_depth
    /\ kpc = "running"

\* C8: the stack holds exactly the names of the calls that are active, so
\* every push is undone when its call is left, by return or by exception;
\* between commands the stack is empty and no command is refused by the
\* depth or cycle check at top level.
C8_StackRestored ==
    /\ stack = [n \in 1..Len(frames) |-> frames[n].name]
    /\ kpc = "idle" => stack = <<>> /\ frames = <<>>
    /\ (kpc = "idle" /\ ncmd > 0) => result.entered

C8_Witness ==
    /\ kpc = "idle"
    /\ ncmd = 2
    /\ result.out = <<ExceptionRaised>>
    /\ procs # <<>>
    /\ stack = <<>>

MissingNames(f) ==
    SelectSeq2(FindPlaceholders(f.body, 1),
               DOMAIN extract_kwargs_and_posargs(f.args).kwargs)

\* C9: while a call whose arguments leave a placeholder of its body
\* without value is the innermost call, no step starts a child process,
\* records an event or opens a chained expansion; the call turns into the
\* MissingPlaceholder message and hands exactly that line to its caller.
C9_MissingPlaceholder ==
    [][(kpc = "running" /\ MissingNames(Top) # <<>>) =>
        /\ procs' = procs
        /\ events' = events
        /\ Len(frames') <= Len(frames)
        /\ kpc' # "raising"
        /\ Top.pc = "start" =>
               frames' = SetTop(
                   [Top EXCEPT !.pc = "ret",
                               !.outputs = <<MissingError(MissingNames(Top))>>])
        /\ Top.pc # "start" =>
               /\ Top.pc = "ret"
               /\ Top.outputs = <<MissingError(MissingNames(Top))>>
               /\ Len(frames') = Len(frames) - 1
               /\ IF Len(frames) = 1
                  THEN result'.out = Top.outputs
                  ELSE frames'[Len(frames')].outputs =
                           Append(frames[Len(frames) - 1].outputs,
                                  MissingError(MissingNames(Top)))
      ]_vars

C9_Witness ==
    /\ kpc = "running"
    /\ Len(frames) = 2
    /\ Top.name = <<"s","a","y">>
    /\ Top.pc = "ret"
    /\ Top.outputs = <<MissingError(<< <<"c">> >>)>>
    /\ procs = <<>>
    /\ events = <<>>

Echo(c) == <<"e","c","h","o"," ",c>>

\* C10: a chained call that fails (name not stored, cycle, depth, missing
\* placeholder) adds exactly one error line to the calling alias, which
\* goes on with its next segment; a calling alias returns only after its
\* last segment.  The command m of MixedStore runs echo 1, echo 2, echo 3
\* in this order between the three error lines, and the tenth alias of
\* DeepSiblingStore runs echo z after the depth error.
C10_SiblingsStillRun ==
    [][/\ (AtSegment("alias") /\ kpc' = "running"
              /\ Len(frames') = Len(frames)) =>
            /\ Top' = [Top EXCEPT
                          !.idx = Top.idx + 1,
                          !.outputs = Append(Top.outputs,
                                             Top'.outputs[Len(Top'.outputs)])]
            /\ Top'.outputs[Len(Top'.outputs)].kind
                   \in {"notfound", "cycle", "depth"}
       /\ (kpc = "running" /\ kpc' = "running" /\ Len(frames) > 1
              /\ Top.pc = "ret" /\ Top.outputs # <<>>) =>
            /\ Len(frames') = Len(frames) - 1
            /\ Top' = [frames[Len(frames) - 1] EXCEPT
                          !.idx = @ + 1, !.outputs = @ \o Top.outputs]
       /\ (kpc = "running" /\ Len(frames') < Len(frames)
              /\ Top.pc = "segs") => Top.idx > Len(Top.segs)
       /\ (kpc = "running" /\ kpc' = "idle" /\ aliases = MixedStore
              /\ cmd = << <<"m">> >>) =>
            /\ procs = <<Proc(Echo("1"), <<>>), Proc(Echo("2"), <<>>),
                         Proc(Echo("3"), <<>>)>>
            /\ WithoutRecordFailed(result'.out) =
                   <<NotFoundError(<<"x">>), RunOutput(Echo("1")),
                     MissingError(<< <<"q">> >>), RunOutput(Echo("2")),
                     CycleError(<< <<"m">> >>, <<"m">>), RunOutput(Echo("3"))>>
       /\ (kpc = "running" /\ kpc' = "idle" /\ aliases = DeepSiblingStore
              /\ cmd = << <<"a">> >>) =>
            /\ procs = <<Proc(Echo("z"), <<>>)>>
            /\ WithoutRecordFailed(result'.out) =
                   <<DepthError(ChainStack(10)), RunOutput(Echo("z"))>>
      ]_vars

C10_Witness ==
    /\ kpc = "idle"
    /\ aliases = MixedStore
    /\ cmd = << <<"m">> >>
    /\ Len(procs) = 3
    /\ Kinds(result.out) = {"notfound", "missing", "cycle", "run"}

\* lexicographic order of call paths
PathBefore(p, q) ==
    \E k \in 1..Len(p) :
        /\ k <= Len(q)
        /\ p[k] < q[k]
        /\ \A n \in 1..(k - 1) : p[n] = q[n]

Running == {n \in 1..Len(children) : children[n].state = "running"}

\* C11: the children of one command are started in segment order,
\* depth-first through chained aliases (their call paths increase
\* lexicographically); when a child is started every earlier child has
\* exited or been killed, so at most one child of the command runs.
C11_SequentialChildren ==
    /\ Len(children) = Len(procs)
    /\ Cardinality(Running) <= 1
    /\ \A n \in 1..(Len(children) - 1) :
           /\ children[n].state \in {"exited", "killed"}
           /\ PathBefore(children[n].path, children[n + 1].path)
    /\ (aliases = MixedStore /\ cmd = << <<"t","o","p">> >>) =>
           \E n \in 0..4 :
               procs = SubSeq(<<Proc(Echo("0"), <<>>), Proc(Echo("a"), <<>>),
                                Proc(Echo("b"), <<>>), Proc(Echo("9"), <<>>)>>,
                              1, n)

C11_Witness ==
    /\ kpc = "running"
    /\ aliases = MixedStore
    /\ cmd = << <<"t","o","p">> >>
    /\ Len(children) = 4
    /\ [n \in 1..4 |-> children[n].path] = << <<1>>, <<2, 1>>, <<2, 2>>, <<3>> >>
    /\ children[2].state = "killed"
    /\ children[4].state = "running"

\* argv of run_argv and run_argv_stream
Argv(p) == <<"/bin/sh", "-c", p.script, "_">> \o p.posargs

\* the invocation tokens that are not of the key=value form, in order
PositionalTokens(args) ==
    SelectSeq(args, LAMBDA tok : ~KwargMatch(tok).matched)

NamedTokens(args) == SelectSeq(args, LAMBDA tok : KwargMatch(tok).matched)

\* the segments of an alias body rendered with the named tokens alone
BodySegments(body, args) ==
    LET named == extract_kwargs_and_posargs(NamedTokens(args)).kwargs
        order == CHOOSE o \in PlaceholderOrders(body) : TRUE
    IN parse_alias_script(substitute_placeholders(body, named, order).text)

\* C18: every child that a command starts for a Literal segment of the
\* invoked alias gets the positional tokens of the command line as the
\* argv elements after "_" (so as $1..$N), unchanged and in order, and its
\* script text is the segment rendered from the named tokens alone: no
\* positional value is part of the text the shell parses.
C18_PositionalArgv ==
    \A n \in 1..Len(children) :
        Len(children[n].path) = 1 =>
            /\ Argv(procs[n]) =
                   <<"/bin/sh", "-c",
                     BodySegments(aliases[cmd[1]],
                                  Tail(cmd))[children[n].path[1]].content,
                     "_">> \o PositionalTokens(Tail(cmd))
            /\ procs[n].posargs = PositionalTokens(Tail(cmd))

C18_Witness ==
    /\ kpc = "idle"
    /\ cmd = << <<"s","a","y">>, <<"m","=","a">>, ShellValue, <<"c","=","b">> >>
    /\ procs = <<Proc(Echo("a"), <<ShellValue>>), Proc(Echo("b"), <<ShellValue>>)>>

(* ------------------------------------------------------------------ *)
(* SpecExec: one call of SubprocessExecutor with a deadline            *)
(* ------------------------------------------------------------------ *)
\* largest timeout, in seconds
MaxTimeout == 1

\* largest small value of max_capture_bytes
MaxCap == 1

\* time is counted in 1/100 s: time.sleep(0.03) of the polling loops
PollSleep == 3

\* select.select([master_fd], [], [], 0.05)
SelectTimeout == 5

\* proc.wait(timeout=1.0)
GraceWait == 100

\* t_out.join(timeout=0.5), t_err.join(timeout=0.5)
JoinTimeout == 50

\* default of max_capture_bytes
DefaultMaxCapture == 256000

\* time.sleep(10) of the child in test_executor_run_stream_timeout
ChildRunTime == 1000

Buffered == {"run", "run_argv"}

Streaming == {"run_stream", "run_argv_stream"}

Modes == Buffered \cup Streaming \cup {"run_pty", "run_tty"}

\* whether pty.openpty and subprocess.Popen succeed
SpawnOutcomes(mode) ==
    IF mode = "run_pty" THEN {"ok", "fails", "nopty"} ELSE {"ok", "fails"}

\* exit codes of a child that ends by itself
ExitCodes == {0, 3, 127}

\* time.sleep(0.05) of the loop of run_tty
TtySleep == 5

\* stands for a character of two bytes in UTF-8, such as e with an acute
EAcute == "E"

\* stands for U+FFFD, which decode(errors="replace") puts for a broken
\* sequence; three bytes in UTF-8
Replacement == "?"

Utf8Len(c) == IF c = EAcute THEN 2 ELSE IF c = Replacement THEN 3 ELSE 1

\* len(s.encode("utf-8"))
RECURSIVE Utf8Bytes(_)
Utf8Bytes(s) ==
    IF s = <<>> THEN 0 ELSE Utf8Len(Head(s)) + Utf8Bytes(Tail(s))

\* s.encode("utf-8")[:n].decode("utf-8", errors="replace")
RECURSIVE Utf8Slice(_, _)
Utf8Slice(s, n) ==
    IF s = <<>> \/ n <= 0 THEN <<>>
    ELSE IF Utf8Len(Head(s)) <= n
         THEN <<Head(s)>> \o Utf8Slice(Tail(s), n - Utf8Len(Head(s)))
         ELSE <<Replacement>>

StreamLine(stream, text) == [stream |-> stream, text |-> text]

\* what the child program writes, in order; the child may stop anywhere
OutputPlans ==
    {<<StreamLine("out", <<"o", NL>>), StreamLine("out", <<EAcute, NL>>)>>,
     <<StreamLine("out", <<EAcute, NL>>), StreamLine("err", <<"e", NL>>)>>}

\* the terminal turns a newline into carriage return and newline
PtyLine(text) == StrReplace(text, <<NL>>, <<"\r", NL>>)

DigitChar(d) == <<"0","1","2","3","4","5","6","7","8","9">>[d + 1]

\* str() of a non-negative int
RECURSIVE Decimal(_)
Decimal(n) ==
    IF n < 10 THEN <<DigitChar(n)>>
    ELSE Decimal(n \div 10) \o <<DigitChar(n % 10)>>

TimeoutMessage(t) ==
    <<"C","o","m","m","a","n","d"," ","t","i","m","e","d"," ","o","u","t"," ","a","f","t","e","r"," ">> \o Decimal(t) \o <<" ","s","e","c","o","n","d","s">>

\* msg of run_stream, run_argv_stream, run_pty; the text of run, run_argv
TimeoutText(mode, t) ==
    IF mode \in Streaming THEN TimeoutMessage(t) \o <<NL>>
    ELSE IF mode = "run_pty" THEN <<NL>> \o TimeoutMessage(t) \o <<NL>>
    ELSE TimeoutMessage(t)

max_bytes ==
    IF call.max_capture_bytes < 0 THEN 0 ELSE call.max_capture_bytes

Deadline == call.timeout * 100

\* _append_capped: the new buffer, byte count and truncated flag
_append_capped(buf, s, current_bytes, truncated) ==
    LET b == Utf8Bytes(s)
        remaining == max_bytes - current_bytes
    IN IF max_bytes = 0 \/ current_bytes >= max_bytes
       THEN [buf |-> buf, bytes |-> current_bytes + b, truncated |-> TRUE]
       ELSE IF b > remaining
            THEN [buf |-> buf \o Utf8Slice(s, remaining),
                  bytes |-> current_bytes + b, truncated |-> TRUE]
            ELSE [buf |-> buf \o s, bytes |-> current_bytes + b,
                  truncated |-> truncated]

AppendOut(s) ==
    LET r == _append_capped(capture.out, s, capture.out_bytes,
                            capture.truncated)
    IN [capture EXCEPT !.out = r.buf, !.out_bytes = r.bytes,
                       !.truncated = r.truncated]

AppendErr(s) ==
    LET r == _append_capped(capture.err, s, capture.err_bytes,
                            capture.truncated)
    IN [capture EXCEPT !.err = r.buf, !.err_bytes = r.bytes,
                       !.truncated = r.truncated]

InitExec ==
    /\ call \in [mode : Modes, timeout : 0..MaxTimeout,
                 max_capture_bytes : (0..MaxCap) \cup {DefaultMaxCapture}]
    /\ proc \in [state : {"unspawned"}, spawn : SpawnOutcomes(call.mode),
                 code : {0}, onTerm : {"dies", "ignores"},
                 holds : BOOLEAN, towrite : OutputPlans,
                 wrote : {<<>>}, out : {<<>>}, err : {<<>>},
                 endedAt : {0}, signals : {<<>>}]
    /\ capture = NoCapture
    /\ proc.spawn # "ok" =>
           /\ proc.onTerm = "dies"
           /\ ~proc.holds
           /\ proc.towrite = CHOOSE plan \in OutputPlans : TRUE
    /\ thread = [pc |-> IF call.mode = "run_pty" THEN "openpty" ELSE "spawn",
                 timed_out |-> FALSE, stop_event |-> FALSE,
                 t_out |-> IF call.mode \in Streaming THEN "reading"
                           ELSE "none",
                 t_err |-> IF call.mode \in Streaming THEN "reading"
                           ELSE "none",
                 returncode |-> <<>>, line |-> <<>>,
                 line_err |-> <<>>]
    /\ now = 0
    /\ ret = NoReturn
    /\ input = <<>>
    /\ phase = "exec"
    /\ rendered = <<>>
    /\ lex = LexInit
    /\ segments = <<>>
    /\ procs = <<>>
    /\ KernelUnused
    /\ BinderUnused

ExecFrame == UNCHANGED <<compilerVars, procs, kernelVars>>

Ended(how) == [proc EXCEPT !.state = how, !.endedAt = now]

\* a result of the call
Returned(exit_code, stdout, stderr, cap) ==
    [returned |-> TRUE, raised |-> FALSE, exit_code |-> exit_code,
     stdout |-> stdout, stderr |-> stderr, stdout_bytes |-> cap.out_bytes,
     stderr_bytes |-> cap.err_bytes, at |-> now]

\* an exception leaves the call
Raised == [NoReturn EXCEPT !.returned = TRUE, !.raised = TRUE]

\* f"Error executing command: {e}"
SpawnError ==
    <<"E","r","r","o","r"," ","e","x","e","c","u","t","i","n","g"," ","c","o","m","m","a","n","d",":"," ","p","o","p","e","n"," ","f","a","i","l","e","d">>

\* pty.openpty()
OpenPty ==
    /\ thread.pc = "openpty"
    /\ IF proc.spawn = "nopty"
       THEN /\ ret' = Raised
            /\ thread' = [thread EXCEPT !.pc = "returned"]
       ELSE /\ thread' = [thread EXCEPT !.pc = "spawn"]
            /\ UNCHANGED ret
    /\ UNCHANGED <<call, proc, capture, now>>
    /\ ExecFrame

\* subprocess.Popen, subprocess.run up to the start of the child
Spawn ==
    /\ thread.pc = "spawn"
    /\ IF proc.spawn = "fails"
       THEN /\ ret' = Returned(1, <<>>,
                               IF call.mode = "run_tty" THEN <<>>
                               ELSE SpawnError, NoCapture)
            /\ thread' = [thread EXCEPT !.pc = "returned", !.t_out = "none",
                                        !.t_err = "none"]
            /\ UNCHANGED proc
       ELSE /\ proc' = [proc EXCEPT !.state = "running"]
            /\ thread' = [thread EXCEPT
                             !.pc = IF call.mode \in Buffered
                                    THEN "communicate" ELSE "loop"]
            /\ UNCHANGED ret
    /\ UNCHANGED <<call, capture, now>>
    /\ ExecFrame

\* the child writes its next line to stdout or stderr, or to the terminal
ChildWrite ==
    /\ ~ret.returned
    /\ proc.state = "running"
    /\ proc.towrite # <<>>
    /\ LET line == Head(proc.towrite)
           p == [proc EXCEPT !.towrite = Tail(@), !.wrote = Append(@, line)]
       IN proc' = IF call.mode = "run_tty" THEN p
                  ELSE IF call.mode = "run_pty"
                  THEN [p EXCEPT !.out = Append(@, PtyLine(line.text))]
                  ELSE IF line.stream = "err"
                       THEN [p EXCEPT !.err = Append(@, line.text)]
                       ELSE [p EXCEPT !.out = Append(@, line.text)]
    /\ UNCHANGED <<call, capture, thread, now, ret>>
    /\ ExecFrame

\* the child ends by itself
ChildExit ==
    /\ ~ret.returned
    /\ proc.state = "running"
    /\ \E code \in ExitCodes : proc' = [Ended("exited") EXCEPT !.code = code]
    /\ UNCHANGED <<call, capture, thread, now, ret>>
    /\ ExecFrame

\* _reader of stdout: readline and the test of stop_event, with the start of
\* on_stdout(line); the return of on_stdout with _append_capped; end of file
ReaderOut ==
    /\ ~ret.returned
    /\ \/ /\ thread.t_out = "reading"
          /\ proc.out # <<>>
          /\ proc' = [proc EXCEPT !.out = Tail(@)]
          /\ IF thread.stop_event
             THEN /\ thread' = [thread EXCEPT !.t_out = "done"]
                  /\ UNCHANGED capture
             ELSE /\ thread' = [thread EXCEPT !.t_out = "calling",
                                              !.line = Head(proc.out)]
                  /\ capture' = [capture EXCEPT
                                    !.seen_out = Append(@, Head(proc.out)),
                                    !.active_out = @ \cup {"t_out"}]
       \/ /\ thread.t_out = "calling"
          /\ capture' = [AppendOut(thread.line) EXCEPT
                            !.active_out = @ \ {"t_out"}]
          /\ thread' = [thread EXCEPT !.t_out = "reading", !.line = <<>>]
          /\ UNCHANGED proc
       \/ /\ thread.t_out = "reading"
          /\ proc.out = <<>>
          /\ proc.state # "running"
          /\ ~proc.holds
          /\ thread' = [thread EXCEPT !.t_out = "done"]
          /\ UNCHANGED <<proc, capture>>
    /\ UNCHANGED <<call, now, ret>>
    /\ ExecFrame

\* _reader of stderr
ReaderErr ==
    /\ ~ret.returned
    /\ \/ /\ thread.t_err = "reading"
          /\ proc.err # <<>>
          /\ proc' = [proc EXCEPT !.err = Tail(@)]
          /\ IF thread.stop_event
             THEN /\ thread' = [thread EXCEPT !.t_err = "done"]
                  /\ UNCHANGED capture
             ELSE /\ thread' = [thread EXCEPT !.t_err = "calling",
                                              !.line_err = Head(proc.err)]
                  /\ capture' = [capture EXCEPT
                                    !.seen_err = Append(@, Head(proc.err)),
                                    !.active_err = @ \cup {"t_err"}]
       \/ /\ thread.t_err = "calling"
          /\ capture' = [AppendErr(thread.line_err) EXCEPT
                            !.active_err = @ \ {"t_err"}]
          /\ thread' = [thread EXCEPT !.t_err = "reading", !.line_err = <<>>]
          /\ UNCHANGED proc
       \/ /\ thread.t_err = "reading"
          /\ proc.err = <<>>
          /\ proc.state # "running"
          /\ ~proc.holds
          /\ thread' = [thread EXCEPT !.t_err = "done"]
          /\ UNCHANGED <<proc, capture>>
    /\ UNCHANGED <<call, now, ret>>
    /\ ExecFrame

Returncode == IF proc.state = "exited" THEN <<proc.code>> ELSE <<-15>>

\* one pass of the polling loop of run_stream and run_argv_stream
StreamPoll ==
    /\ call.mode \in Streaming
    /\ thread.pc = "loop"
    /\ IF proc.state # "running"
       THEN /\ thread' = [thread EXCEPT !.pc = "join_out",
                                        !.stop_event = TRUE,
                                        !.returncode = Returncode]
            /\ UNCHANGED now
       ELSE IF now >= Deadline
            THEN /\ thread' = [thread EXCEPT !.pc = "terminate",
                                             !.timed_out = TRUE]
                 /\ UNCHANGED now
            ELSE /\ now' = now + PollSleep
                 /\ UNCHANGED thread
    /\ UNCHANGED <<call, proc, capture, ret>>
    /\ ExecFrame

\* a signal as the child or its process group receives it
Signal(sig) ==
    [sig |-> sig, group |-> call.mode = "run_pty", at |-> now,
     running |-> proc.state = "running"]

\* os.kill and os.killpg; Popen.send_signal polls and sends nothing to a
\* child that has ended
Sent(p, sig) ==
    IF call.mode = "run_pty" \/ proc.state = "running"
    THEN [p EXCEPT !.signals = Append(@, Signal(sig))]
    ELSE p

\* a timeout that kills at once
TerminateKills ==
    /\ thread.pc = "terminate"
    /\ proc' = Sent(IF proc.state = "running" THEN Ended("killed") ELSE proc,
                    "SIGKILL")
    /\ thread' = [thread EXCEPT !.pc = "wait"]
    /\ UNCHANGED <<call, capture, now, ret>>
    /\ ExecFrame

\* proc.terminate(), os.killpg(proc.pid, signal.SIGTERM)
Terminate ==
    /\ thread.pc = "terminate"
    /\ proc' = Sent(IF proc.state = "running" /\ proc.onTerm = "dies"
                    THEN Ended("killed") ELSE proc, "SIGTERM")
    /\ thread' = [thread EXCEPT !.pc = "wait"]
    /\ UNCHANGED <<call, capture, now, ret>>
    /\ ExecFrame

AfterWait ==
    IF call.mode \in {"run_pty", "run_tty"}
    THEN [thread EXCEPT !.pc = "finish"]
    ELSE [thread EXCEPT !.pc = "join_out", !.stop_event = TRUE]

\* a wait without timeout: it lasts until the child ends by itself
WaitForChild ==
    /\ thread.pc = "wait"
    /\ IF proc.state # "running"
       THEN /\ thread' = [AfterWait EXCEPT !.returncode = Returncode]
            /\ UNCHANGED <<proc, now>>
       ELSE /\ now' = now + ChildRunTime
            /\ proc' = [proc EXCEPT !.state = "exited",
                                    !.endedAt = now + ChildRunTime]
            /\ thread' = [AfterWait EXCEPT !.returncode = <<0>>]
    /\ UNCHANGED <<call, capture, ret>>
    /\ ExecFrame

\* proc.wait(timeout=1.0), then proc.kill() or os.killpg(.., SIGKILL)
WaitThenKill ==
    /\ thread.pc = "wait"
    /\ IF proc.state # "running"
       THEN /\ thread' = [AfterWait EXCEPT !.returncode = Returncode]
            /\ UNCHANGED <<proc, now>>
       ELSE /\ now' = now + GraceWait
            /\ proc' = [proc EXCEPT
                           !.state = "killed",
                           !.endedAt = now + GraceWait,
                           !.signals = Append(@, [Signal("SIGKILL") EXCEPT
                                                     !.at = now + GraceWait])]
            /\ thread' = AfterWait
    /\ UNCHANGED <<call, capture, ret>>
    /\ ExecFrame

\* t_out.join(timeout=0.5)
JoinOut ==
    /\ thread.pc = "join_out"
    /\ now' = IF thread.t_out = "done" THEN now ELSE now + JoinTimeout
    /\ thread' = [thread EXCEPT !.pc = "join_err"]
    /\ UNCHANGED <<call, proc, capture, ret>>
    /\ ExecFrame

\* t_err.join(timeout=0.5)
JoinErr ==
    /\ thread.pc = "join_err"
    /\ now' = IF thread.t_err = "done" THEN now ELSE now + JoinTimeout
    /\ thread' = [thread EXCEPT !.pc = "finish"]
    /\ UNCHANGED <<call, proc, capture, ret>>
    /\ ExecFrame

\* the exit code of the child as it is
ExitCodeRaw(rc) == IF rc = <<>> THEN 1 ELSE rc[1]

ExitCode(rc) ==
    LET code == IF rc = <<>> THEN 1 ELSE rc[1]
    IN IF code = 127 THEN 1 ELSE code

StreamResult(exit_code, cap) == Returned(exit_code, cap.out, cap.err, cap)

\* the calling thread enters on_stderr(msg)
StreamMessage ==
    /\ call.mode \in Streaming
    /\ thread.pc = "finish"
    /\ thread.timed_out
    /\ capture' = [capture EXCEPT
                      !.seen_err = Append(@, TimeoutText(call.mode,
                                                         call.timeout)),
                      !.active_err = @ \cup {"main"}]
    /\ thread' = [thread EXCEPT !.pc = "message"]
    /\ UNCHANGED <<call, proc, now, ret>>
    /\ ExecFrame

\* the end of run_stream and run_argv_stream
StreamReturn ==
    /\ call.mode \in Streaming
    /\ \/ thread.pc = "finish" /\ ~thread.timed_out
       \/ thread.pc = "message"
    /\ LET cap == IF thread.timed_out
                  THEN [AppendErr(TimeoutText(call.mode, call.timeout))
                           EXCEPT !.active_err = @ \ {"main"}]
                  ELSE capture
       IN /\ capture' = cap
          /\ ret' = StreamResult(IF thread.timed_out THEN 1
                                 ELSE ExitCode(thread.returncode), cap)
    /\ thread' = [thread EXCEPT !.pc = "returned"]
    /\ UNCHANGED <<call, proc, now>>
    /\ ExecFrame

\* on_output(chunk) and _append_capped of run_pty
Delivered(chunk) ==
    [AppendOut(chunk) EXCEPT !.seen_out = Append(@, chunk)]

\* a loop that leaves at the exit of the child without reading the rest
PtyPollNoDrain ==
    /\ call.mode = "run_pty"
    /\ thread.pc = "loop"
    /\ thread' = IF proc.state # "running"
                 THEN [thread EXCEPT !.pc = "finish",
                                     !.returncode = Returncode]
                 ELSE IF now >= Deadline
                      THEN [thread EXCEPT !.pc = "terminate",
                                          !.timed_out = TRUE]
                      ELSE [thread EXCEPT !.pc = "select"]
    /\ UNCHANGED <<call, proc, capture, now, ret>>
    /\ ExecFrame

\* one pass of the loop of run_pty up to the select
PtyPoll ==
    /\ call.mode = "run_pty"
    /\ thread.pc = "loop"
    /\ IF proc.state # "running"
       THEN /\ thread' = [thread EXCEPT !.pc = "finish",
                                        !.returncode = Returncode]
            /\ capture' = IF proc.out = <<>> THEN capture
                          ELSE Delivered(Concat(proc.out))
            /\ proc' = [proc EXCEPT !.out = <<>>]
       ELSE /\ thread' = IF now >= Deadline
                         THEN [thread EXCEPT !.pc = "terminate",
                                             !.timed_out = TRUE]
                         ELSE [thread EXCEPT !.pc = "select"]
            /\ UNCHANGED <<proc, capture>>
    /\ UNCHANGED <<call, now, ret>>
    /\ ExecFrame

\* select on the master side and os.read
PtySelect ==
    /\ thread.pc = "select"
    /\ IF proc.out # <<>>
       THEN /\ capture' = Delivered(Concat(proc.out))
            /\ proc' = [proc EXCEPT !.out = <<>>]
            /\ thread' = [thread EXCEPT !.pc = "loop"]
            /\ UNCHANGED now
       ELSE IF proc.state # "running" /\ ~proc.holds
            THEN /\ thread' = [thread EXCEPT !.pc = "finish"]
                 /\ UNCHANGED <<proc, capture, now>>
            ELSE /\ now' = now + SelectTimeout
                 /\ thread' = [thread EXCEPT !.pc = "loop"]
                 /\ UNCHANGED <<proc, capture>>
    /\ UNCHANGED <<call, ret>>
    /\ ExecFrame

\* an end of run_pty that reports the timeout in stderr
PtyReturnMessageInStderr ==
    /\ call.mode = "run_pty"
    /\ thread.pc = "finish"
    /\ LET cap == IF thread.timed_out
                  THEN AppendErr(TimeoutText(call.mode, call.timeout))
                  ELSE capture
       IN /\ capture' = cap
          /\ ret' = StreamResult(IF thread.timed_out THEN 1
                                 ELSE ExitCode(thread.returncode), cap)
    /\ thread' = [thread EXCEPT !.pc = "returned"]
    /\ UNCHANGED <<call, proc, now>>
    /\ ExecFrame

\* the end of run_pty
PtyReturn ==
    /\ call.mode = "run_pty"
    /\ thread.pc = "finish"
    /\ LET cap == IF thread.timed_out
                  THEN Delivered(TimeoutText(call.mode, call.timeout))
                  ELSE capture
       IN /\ capture' = cap
          /\ ret' = [StreamResult(IF thread.timed_out THEN 1
                                  ELSE ExitCode(thread.returncode), cap)
                        EXCEPT !.stderr = <<>>]
    /\ thread' = [thread EXCEPT !.pc = "returned"]
    /\ UNCHANGED <<call, proc, now>>
    /\ ExecFrame

\* one pass of the loop of run_tty
TtyPoll ==
    /\ call.mode = "run_tty"
    /\ thread.pc = "loop"
    /\ IF proc.state # "running"
       THEN /\ thread' = [thread EXCEPT !.pc = "finish",
                                        !.returncode = Returncode]
            /\ UNCHANGED now
       ELSE IF now >= Deadline
            THEN /\ thread' = [thread EXCEPT !.pc = "terminate",
                                             !.timed_out = TRUE]
                 /\ UNCHANGED now
            ELSE /\ now' = now + TtySleep
                 /\ UNCHANGED thread
    /\ UNCHANGED <<call, proc, capture, ret>>
    /\ ExecFrame

\* the end of run_tty
TtyReturn ==
    /\ call.mode = "run_tty"
    /\ thread.pc = "finish"
    /\ ret' = Returned(IF thread.timed_out THEN 1
                       ELSE ExitCode(thread.returncode), <<>>, <<>>, NoCapture)
    /\ thread' = [thread EXCEPT !.pc = "returned"]
    /\ UNCHANGED <<call, proc, capture, now>>
    /\ ExecFrame

\* subprocess.run waits for the end of the output or for the deadline
BufferedBlock ==
    /\ thread.pc = "communicate"
    /\ now < Deadline
    /\ proc.state = "running" \/ proc.holds
    /\ now' = Deadline
    /\ UNCHANGED <<call, proc, capture, thread, ret>>
    /\ ExecFrame

\* subprocess.run returns the CompletedProcess
BufferedReturn ==
    /\ thread.pc = "communicate"
    /\ now < Deadline
    /\ proc.state # "running"
    /\ ~proc.holds
    /\ ret' = Returned(ExitCode(Returncode), Concat(proc.out),
                       Concat(proc.err), NoCapture)
    /\ thread' = [thread EXCEPT !.pc = "returned",
                                !.returncode = Returncode]
    /\ UNCHANGED <<call, proc, capture, now>>
    /\ ExecFrame

\* subprocess.run kills the child, waits for it, raises TimeoutExpired
BufferedTimeout ==
    /\ thread.pc = "communicate"
    /\ now >= Deadline
    /\ proc' = IF proc.state = "running"
               THEN [Ended("killed") EXCEPT
                        !.signals = Append(@, Signal("SIGKILL"))]
               ELSE proc
    /\ ret' = Returned(1, <<>>, TimeoutText(call.mode, call.timeout),
                       NoCapture)
    /\ thread' = [thread EXCEPT !.pc = "returned", !.timed_out = TRUE]
    /\ UNCHANGED <<call, capture, now>>
    /\ ExecFrame

\* the steps of the thread that called the executor
CallerStep ==
    \/ OpenPty
    \/ Spawn
    \/ TtyPoll
    \/ TtyReturn
    \/ StreamPoll
    \/ Terminate
    \/ WaitThenKill
    \/ JoinOut
    \/ JoinErr
    \/ StreamMessage
    \/ StreamReturn
    \/ PtyPoll
    \/ PtySelect
    \/ PtyReturn
    \/ BufferedBlock
    \/ BufferedReturn
    \/ BufferedTimeout

NextExec ==
    \/ OpenPty
    \/ Spawn
    \/ TtyPoll
    \/ TtyReturn
    \/ ChildWrite
    \/ ChildExit
    \/ ReaderOut
    \/ ReaderErr
    \/ StreamPoll
    \/ Terminate
    \/ WaitThenKill
    \/ JoinOut
    \/ JoinErr
    \/ StreamMessage
    \/ StreamReturn
    \/ PtyPoll
    \/ PtySelect
    \/ PtyReturn
    \/ BufferedBlock
    \/ BufferedReturn
    \/ BufferedTimeout

SpecExec == InitExec /\ [][NextExec]_vars

(* ------------------------------------------------------------------ *)
(* The executor                                                        *)
(* ------------------------------------------------------------------ *)
Contains(text, pat) ==
    \E k \in 1..(Len(text) - Len(pat) + 1) :
        SubSeq(text, k, k + Len(pat) - 1) = pat

\* the deadline passed while the child had not ended: the child is still
\* running at the deadline, was killed for it, or ended by itself later
Overdue ==
    CASE proc.state = "running" -> now >= Deadline
      [] proc.state = "killed" -> TRUE
      [] proc.state = "exited" -> proc.endedAt > Deadline
      [] OTHER -> FALSE

ErrorText == IF call.mode = "run_pty" THEN ret.stdout ELSE ret.stderr

\* C19: a call that returns after the deadline passed with the child not
\* yet ended returns exit code 1 and an error text (the stdout text of
\* run_pty) that contains the timeout message, whatever was captured
\* before.
C19_TimeoutReported ==
    (ret.returned /\ Overdue /\ call.mode # "run_tty") =>
        /\ ret.exit_code = 1
        /\ Contains(ErrorText, TimeoutMessage(call.timeout))

\* the longest time between the deadline and the return: the pause of the
\* polling loop, the grace wait and the two joins
ReturnBound == SelectTimeout + GraceWait + 2 * JoinTimeout

\* C20: when the deadline passes with the child not yet ended, the call
\* returns no later than ReturnBound (about 2 s) after the deadline in
\* every mode, for a child that ignores SIGTERM and for one whose
\* descendants keep the pipes open; a timeout is declared only at or after
\* the deadline.
C20_TimeoutReturnBound ==
    /\ (IF ret.returned THEN ret.at ELSE now) <= Deadline + ReturnBound
    /\ thread.timed_out => now >= Deadline
    /\ ret.returned <=> thread.pc = "returned"

C20_Witness ==
    /\ ret.returned
    /\ Overdue
    /\ call.mode = "run_stream"
    /\ call.timeout = 1
    /\ proc.onTerm = "ignores"
    /\ proc.holds
    /\ thread.timed_out
    /\ ret.at > Deadline + GraceWait + JoinTimeout

Sigs == [n \in 1..Len(proc.signals) |-> proc.signals[n].sig]

\* C21: in the streaming modes and in run_pty signals are sent only after
\* a timeout; the first one is SIGTERM, in run_pty to the process group;
\* SIGKILL comes only second, GraceWait (1 s) after the SIGTERM, and only to
\* a child that was still running at the end of that wait; a child that the
\* timeout found running gets the SIGTERM.
C21_TermThenKill ==
    call.mode \notin Buffered =>
        /\ Sigs \in {<<>>, <<"SIGTERM">>, <<"SIGTERM", "SIGKILL">>}
        /\ proc.signals # <<>> => thread.timed_out
        /\ \A n \in 1..Len(proc.signals) :
               proc.signals[n].group = (call.mode = "run_pty")
        /\ Len(proc.signals) = 2 =>
               /\ proc.signals[2].running
               /\ proc.signals[1].running
               /\ proc.onTerm = "ignores"
               /\ proc.signals[2].at = proc.signals[1].at + GraceWait
        /\ (thread.timed_out /\ thread.pc \notin {"terminate", "wait"}
               /\ proc.onTerm = "ignores" /\ proc.state = "killed") =>
               Len(proc.signals) = 2
        /\ (thread.timed_out /\ thread.pc # "terminate"
               /\ (call.mode = "run_pty" \/ proc.state = "killed")) =>
               proc.signals # <<>>

C21_Witness ==
    /\ ret.returned
    /\ call.mode = "run_pty"
    /\ Sigs = <<"SIGTERM", "SIGKILL">>
    /\ proc.signals[2].at = Deadline + GraceWait

\* the lines the child wrote to one stream, in the order of writing
Written(stream) ==
    LET s == SelectSeq(proc.wrote, LAMBDA l : l.stream = stream)
    IN [n \in 1..Len(s) |-> s[n].text]

\* the child ended by itself before the deadline
ExitedInTime == proc.state = "exited" /\ proc.endedAt < Deadline

\* C22: when the child of a streaming call ends before the deadline, the
\* call returns only after every line the child wrote to stdout and to
\* stderr was passed to the callback of that stream exactly once, and the
\* byte counts of the result count every one of these lines.
C22_AllLinesDelivered ==
    (ret.returned /\ call.mode \in Streaming /\ ExitedInTime) =>
        /\ capture.seen_out = Written("out")
        /\ capture.seen_err = Written("err")
        /\ ret.stdout_bytes = Utf8Bytes(Concat(Written("out")))
        /\ ret.stderr_bytes = Utf8Bytes(Concat(Written("err")))

\* C23: the callback of one stream never runs in two threads at once, the
\* call of on_stderr with the timeout message by the calling thread
\* included.
C23_CallbackNotConcurrent ==
    call.mode \in Streaming =>
        /\ Cardinality(capture.active_out) <= 1
        /\ Cardinality(capture.active_err) <= 1

IsPrefix(a, b) == Len(a) <= Len(b) /\ SubSeq(b, 1, Len(a)) = a

\* the longest prefix of text that has at most n bytes in UTF-8
CutAtCap(text, n) ==
    LET fits == {k \in 0..Len(text) : Utf8Bytes(SubSeq(text, 1, k)) <= n}
    IN SubSeq(text, 1, CHOOSE k \in fits : \A j \in fits : j <= k)

\* the lines of the child among what on_stderr received
ChildLines(seen) ==
    SelectSeq(seen, LAMBDA l : l # TimeoutText(call.mode, call.timeout))

\* C24: in a streaming call each callback receives the lines of its stream
\* in the order the child wrote them, and the stdout and stderr of the
\* result are what the callback of that stream received, joined in that
\* order and cut at max_capture_bytes: always a prefix of what was
\* delivered.
C24_CaptureIsDeliveredPrefix ==
    call.mode \in Streaming =>
        /\ IsPrefix(capture.seen_out, Written("out"))
        /\ IsPrefix(ChildLines(capture.seen_err), Written("err"))
        /\ IsPrefix(capture.out, Concat(capture.seen_out))
        /\ (ret.returned /\ proc.spawn = "ok") =>
               /\ IsPrefix(ret.stdout, Concat(capture.seen_out))
               /\ IsPrefix(ret.stderr, Concat(capture.seen_err))
               /\ ret.stdout = CutAtCap(Concat(capture.seen_out), max_bytes)
               /\ ret.stderr = CutAtCap(Concat(capture.seen_err), max_bytes)

\* C25 as stated: every result of run_pty has an empty stderr, also when
\* the child could not be started and after a timeout.
C25_PtyStderrEmpty ==
    (ret.returned /\ ~ret.raised /\ call.mode = "run_pty") =>
        ret.stderr = <<>>

\* C25: a result of run_pty has an empty stderr, after a timeout as well,
\* unless subprocess.Popen failed: that result has exit code 1, an empty
\* stdout and the error text in stderr.
C25_PtyStderr ==
    (ret.returned /\ ~ret.raised /\ call.mode = "run_pty") =>
        IF proc.spawn = "fails"
        THEN /\ ret.stderr = SpawnError
             /\ ret.stdout = <<>>
             /\ ret.exit_code = 1
        ELSE ret.stderr = <<>>

C25_Witness ==
    /\ ret.returned
    /\ call.mode = "run_pty"
    /\ thread.timed_out
    /\ proc.wrote # <<>>
    /\ ret.stderr = <<>>
    /\ Contains(ret.stdout, TimeoutMessage(call.timeout))

\* what the child wrote, as the terminal passes it on
TerminalOutput ==
    Concat([n \in 1..Len(proc.wrote) |-> PtyLine(proc.wrote[n].text)])

C27_SpawnFailureReported ==
    (ret.returned /\ proc.spawn # "ok") =>
        /\ ~ret.raised
        /\ ret.exit_code = 1
        /\ Contains(ret.stdout \o ret.stderr, SpawnError)

\* C28: no result carries exit code 127 in any mode, and a child that ends
\* with 127 gives a result with exit code 1.
C28_No127 ==
    (ret.returned /\ ~ret.raised) =>
        /\ ret.exit_code # 127
        /\ (proc.state = "exited" /\ proc.code = 127) => ret.exit_code = 1

C28_Witness ==
    /\ ret.returned
    /\ call.mode = "run_tty"
    /\ proc.state = "exited"
    /\ proc.code = 127
    /\ ~thread.timed_out
    /\ thread.returncode = <<127>>
    /\ ret.exit_code = 1

(* ------------------------------------------------------------------ *)
(* SpecStore: SQLiteStore.record_event.  events holds the rows of the  *)
(* events table, call the arguments of the last call, ret the tuple it *)
(* returned.  A text is a sequence of runs, each a character and the   *)
(* number of its repetitions.                                          *)
(* ------------------------------------------------------------------ *)
\* most rows in the events table
MaxEvents == 1

MAX_STDOUT_BYTES == 8192

MAX_STDERR_BYTES == 8192

MAX_TOTAL_BYTES == 16384

Run(c, n) == [c |-> c, n |-> n]

RunBytes(r) == Utf8Len(r.c) * r.n

\* len(s.encode("utf-8")) of a text of runs
RECURSIVE TextBytes(_)
TextBytes(text) ==
    IF text = <<>> THEN 0 ELSE RunBytes(Head(text)) + TextBytes(Tail(text))

\* s.encode("utf-8")[:n].decode("utf-8", errors="replace") of a text of
\* runs: a character cut in the middle becomes U+FFFD
RECURSIVE Utf8Cut(_, _)
Utf8Cut(text, n) ==
    IF text = <<>> \/ n <= 0 THEN <<>>
    ELSE LET r == Head(text)
             w == Utf8Len(r.c)
         IN IF RunBytes(r) <= n
            THEN <<r>> \o Utf8Cut(Tail(text), n - RunBytes(r))
            ELSE (IF n \div w > 0 THEN <<Run(r.c, n \div w)>> ELSE <<>>)
                 \o (IF n % w # 0 THEN <<Run(Replacement, 1)>> ELSE <<>>)

\* output sizes around the caps, and the sizes of
\* test_record_event_prioritizes_stderr_in_total_limit
OutputSizes ==
    {1, 100, 1000, MAX_STDOUT_BYTES, MAX_STDOUT_BYTES + 1,
     MAX_STDOUT_BYTES + 1000, MAX_TOTAL_BYTES - 100, MAX_TOTAL_BYTES,
     MAX_TOTAL_BYTES + 1}

\* the texts handed to record_event: empty, one run of a one-byte
\* character, and a one-byte character before a run of two-byte ones
Outputs ==
    {<<>>} \cup {<<Run("S", n)>> : n \in OutputSizes}
           \cup {<<Run("S", 1), Run(EAcute, 5000)>>}

\* a record_event that applies the cap of each stream whatever the total
record_event_caps_each(stdout, stderr) ==
    LET stdout_bytes_total == TextBytes(stdout)
        stderr_bytes_total == TextBytes(stderr)
        cut_out == stdout_bytes_total > MAX_STDOUT_BYTES
        cut_err == stderr_bytes_total > MAX_STDERR_BYTES
    IN [stdout |-> IF cut_out THEN Utf8Cut(stdout, MAX_STDOUT_BYTES)
                   ELSE stdout,
        stderr |-> IF cut_err THEN Utf8Cut(stderr, MAX_STDERR_BYTES)
                   ELSE stderr,
        stdout_bytes_total |-> stdout_bytes_total,
        stderr_bytes_total |-> stderr_bytes_total,
        stdout_truncated |-> cut_out,
        stderr_truncated |-> cut_err]

\* the row that record_event inserts
record_event(stdout, stderr) ==
    LET stdout_bytes_total == TextBytes(stdout)
        stderr_bytes_total == TextBytes(stderr)
        total_size == stdout_bytes_total + stderr_bytes_total
        remaining_for_stdout == MAX_TOTAL_BYTES - stderr_bytes_total
        over == total_size > MAX_TOTAL_BYTES
        cut_out == IF over THEN remaining_for_stdout < stdout_bytes_total
                   ELSE stdout_bytes_total > MAX_STDOUT_BYTES
        cut_err == ~over /\ stderr_bytes_total > MAX_STDERR_BYTES
    IN [stdout |-> IF ~cut_out THEN stdout
                   ELSE IF over
                        THEN Utf8Cut(stdout,
                                     IF remaining_for_stdout > 0
                                     THEN remaining_for_stdout ELSE 0)
                        ELSE Utf8Cut(stdout, MAX_STDOUT_BYTES),
        stderr |-> IF cut_err THEN Utf8Cut(stderr, MAX_STDERR_BYTES)
                   ELSE stderr,
        stdout_bytes_total |-> stdout_bytes_total,
        stderr_bytes_total |-> stderr_bytes_total,
        stdout_truncated |-> cut_out,
        stderr_truncated |-> cut_err]

InitStore ==
    /\ ExecutorUnused
    /\ KernelUnused
    /\ BinderUnused
    /\ input = <<>>
    /\ phase = "store"
    /\ rendered = <<>>
    /\ lex = LexInit
    /\ segments = <<>>
    /\ procs = <<>>

\* one call of record_event with its INSERT
RecordEvent ==
    /\ Len(events) < MaxEvents
    /\ \E stdout \in Outputs, stderr \in Outputs :
           LET row == record_event(stdout, stderr)
           IN /\ call' = [stdout |-> stdout, stderr |-> stderr]
              /\ events' = Append(events, row)
              /\ ret' = <<row.stdout_truncated, row.stderr_truncated,
                          row.stdout_bytes_total, row.stderr_bytes_total>>
    /\ UNCHANGED <<compilerVars, procs, aliases, stack, frames, kpc, cmd,
                   result, ncmd, children, proc, capture, thread, now>>

NextStore == RecordEvent

SpecStore == InitStore /\ [][NextStore]_vars

\* C29: every stored event holds at most MAX_STDOUT_BYTES of stdout, at
\* most MAX_STDERR_BYTES of stderr and at most MAX_TOTAL_BYTES of both,
\* in UTF-8, whatever sizes were handed to record_event.
C29_StoredWithinCaps ==
    \A n \in 1..Len(events) :
        /\ TextBytes(events[n].stdout) <= MAX_STDOUT_BYTES
        /\ TextBytes(events[n].stderr) <= MAX_STDERR_BYTES
        /\ TextBytes(events[n].stdout) + TextBytes(events[n].stderr)
               <= MAX_TOTAL_BYTES

\* the row of the last call
LastEvent == events[Len(events)]

\* C30: when stdout and stderr together exceed MAX_TOTAL_BYTES, stderr is
\* stored whole and reported not truncated, and stdout is stored cut at the
\* room that stderr leaves (none when stderr alone fills the cap; exactly
\* that many bytes of a stdout of one-byte characters) and reported
\* truncated; the totals returned are those of the arguments.
C30_StderrPrioritized ==
    (events # <<>>
        /\ TextBytes(call.stdout) + TextBytes(call.stderr) > MAX_TOTAL_BYTES)
    => LET room == MAX_TOTAL_BYTES - TextBytes(call.stderr)
       IN /\ LastEvent.stderr = call.stderr
          /\ ret[2] = FALSE
          /\ ret[1] = TRUE
          /\ LastEvent.stdout = Utf8Cut(call.stdout, room)
          /\ (room >= 0 /\ \A k \in 1..Len(call.stdout) :
                                Utf8Len(call.stdout[k].c) = 1) =>
                 TextBytes(LastEvent.stdout) = room
          /\ ret[3] = TextBytes(call.stdout)
          /\ ret[4] = TextBytes(call.stderr)

C30_Witness ==
    /\ events # <<>>
    /\ call.stderr = <<Run("S", MAX_TOTAL_BYTES - 100)>>
    /\ call.stdout = <<Run("S", 1000)>>
    /\ LastEvent.stdout = <<Run("S", 100)>>
    /\ LastEvent.stderr = call.stderr
    /\ ret = <<TRUE, FALSE, 1000, MAX_TOTAL_BYTES - 100>>

\* C31: the truncated flag of a stream is set exactly when the stored text
\* of that stream differs from the text handed to record_event: set
\* whenever something was dropped, never set for a text stored in full.
C31_FlagIffDropped ==
    events # <<>> =>
        /\ LastEvent.stdout_truncated <=> LastEvent.stdout # call.stdout
        /\ LastEvent.stderr_truncated <=> LastEvent.stderr # call.stderr
        /\ ret[1] = LastEvent.stdout_truncated
        /\ ret[2] = LastEvent.stderr_truncated

(* ------------------------------------------------------------------ *)
(* SpecHistory: Kernel._execute_alias_streaming for a child that ends  *)
(* before the deadline.  proc.out and proc.err are what the child      *)
(* wrote, one line per stream, as texts of runs; ret is the result of  *)
(* run_stream, events the events table, result what the kernel reports.*)
(* ------------------------------------------------------------------ *)
\* sizes of the output of the child around the caps of store and executor
ChildSizes ==
    {1000, MAX_STDOUT_BYTES + 1, MAX_TOTAL_BYTES + 1, DefaultMaxCapture,
     DefaultMaxCapture + 1}

ChildOutputs ==
    {<<>>} \cup {<<Run("S", n)>> : n \in ChildSizes}
           \cup {<<Run("S", 1), Run(EAcute, 5000)>>}

\* _reader with _append_capped for the one line of a stream: the captured
\* text, the byte count and whether something was cut
capture_line(text, cap) ==
    LET b == TextBytes(text)
    IN IF text = <<>>
       THEN [text |-> <<>>, bytes |-> 0, truncated |-> FALSE]
       ELSE IF cap = 0
            THEN [text |-> <<>>, bytes |-> b, truncated |-> TRUE]
            ELSE IF b > cap
                 THEN [text |-> Utf8Cut(text, cap), bytes |-> b,
                       truncated |-> TRUE]
                 ELSE [text |-> text, bytes |-> b, truncated |-> FALSE]

InitHistory ==
    /\ call = [mode |-> "run_stream", timeout |-> MaxTimeout,
               max_capture_bytes |-> DefaultMaxCapture]
    /\ proc \in {[NoProc EXCEPT !.state = "exited", !.out = o, !.err = e] :
                     o \in ChildOutputs, e \in ChildOutputs}
    /\ capture = NoCapture
    /\ thread = NoThread
    /\ now = 0
    /\ ret = NoReturn
    /\ aliases = <<>>
    /\ stack = <<>>
    /\ frames = <<>>
    /\ kpc = "run_stream"
    /\ events = <<>>
    /\ cmd = <<>>
    /\ result = NoResult
    /\ ncmd = 0
    /\ children = <<>>
    /\ BinderUnused
    /\ input = <<>>
    /\ phase = "history"
    /\ rendered = <<>>
    /\ lex = LexInit
    /\ segments = <<>>
    /\ procs = <<>>

HistoryFrame ==
    UNCHANGED <<compilerVars, procs, aliases, stack, frames, cmd, ncmd,
                children, call, proc, capture, thread, now>>

\* result = self.executor.run_stream(resolved_command, ...)
RunStream ==
    /\ kpc = "run_stream"
    /\ LET out == capture_line(proc.out, call.max_capture_bytes)
           err == capture_line(proc.err, call.max_capture_bytes)
       IN ret' = [NoReturn EXCEPT !.returned = TRUE,
                                  !.exit_code = ExitCode(<<proc.code>>),
                                  !.stdout = out.text, !.stderr = err.text,
                                  !.stdout_bytes = out.bytes,
                                  !.stderr_bytes = err.bytes]
    /\ kpc' = "record_event"
    /\ UNCHANGED <<events, result>>
    /\ HistoryFrame

\* self.store.record_event(.., stdout=result.stdout, stderr=result.stderr),
\* and the totals of the truncation warning
RecordStreamed ==
    /\ kpc = "record_event"
    /\ LET row == record_event(ret.stdout, ret.stderr)
       IN /\ events' = Append(events, row)
          /\ result' = [stdout_truncated |-> row.stdout_truncated,
                        stderr_truncated |-> row.stderr_truncated,
                        stdout_bytes_total |-> row.stdout_bytes_total,
                        stderr_bytes_total |-> row.stderr_bytes_total]
    /\ kpc' = "reported"
    /\ UNCHANGED ret
    /\ HistoryFrame

NextHistory ==
    \/ RunStream
    \/ RecordStreamed

SpecHistory == InitHistory /\ [][NextHistory]_vars

\* C32: the byte totals that the recorder returns, that the history stores
\* and that the truncation warning shows are the numbers of bytes the child
\* wrote to stdout and to stderr, the bytes dropped by the capture cap of
\* the executor and by the caps of the store included.
C32_TotalsAreBytesWritten ==
    kpc = "reported" =>
        /\ result.stdout_bytes_total = TextBytes(proc.out)
        /\ result.stderr_bytes_total = TextBytes(proc.err)
        /\ LastEvent.stdout_bytes_total = TextBytes(proc.out)
        /\ LastEvent.stderr_bytes_total = TextBytes(proc.err)

(* ------------------------------------------------------------------ *)
(* Claims about the substitution loop                                  *)
(* ------------------------------------------------------------------ *)
\* one pass over the script: every match of findall is replaced by the
\* quoted value, the text between the matches is copied
RECURSIVE ReplaceOnce(_, _, _)
ReplaceOnce(script, kw, k) ==
    IF k > Len(script) THEN <<>>
    ELSE
      LET j == ScanName(script, k + 1) IN
      IF /\ script[k] = "{"
         /\ k + 1 <= Len(script)
         /\ script[k + 1] \in IdentStart
         /\ j <= Len(script)
         /\ script[j] = "}"
      THEN shell_quote(kw[SubSeq(script, k + 1, j - 1)])
               \o ReplaceOnce(script, kw, j + 1)
      ELSE <<script[k]>> \o ReplaceOnce(script, kw, k + 1)

\* C37: a successful substitution replaces each placeholder of the
\* original script exactly once by the quoted value and never scans the
\* inserted text again, so every processing order of the placeholder set
\* gives the same text
C37_SinglePass ==
    (phase = "substituted" /\ subst.ok) =>
        /\ subst.text = ReplaceOnce(input, kwargs, 1)
        /\ \A order \in PlaceholderOrders(input) :
               substitute_placeholders(input, kwargs, order).text = subst.text

(* ------------------------------------------------------------------ *)
(* SpecAliases: the aliases table of SQLiteStore.  aliases holds the   *)
(* rows (all written with is_active = 1), cmd the last call.           *)
(* ------------------------------------------------------------------ *)
MaxAliasOps == 2

Panels == {<<"G">>, <<"G","I">>, <<"g">>}

AliasNames == {<<"i","t">>, <<"t">>, <<"x">>}

AliasCommands == {<<"o","n","e">>, <<"t","w","o">>}

\* str.lower on the characters used here
LowerChar(ch) == IF ch = "G" THEN "g" ELSE IF ch = "I" THEN "i" ELSE ch

Lower(s) == [k \in 1..Len(s) |-> LowerChar(s[k])]

\* the result of find_alias when no row matches (None)
NoAlias == <<>>

\* SELECT command FROM aliases WHERE panel = ? AND name = ? AND
\* is_active = 1
store_find_alias(table, panel, name) ==
    LET rows == {r \in table : r.panel = panel /\ r.name = name}
    IN IF rows = {} THEN NoAlias ELSE (CHOOSE r \in rows : TRUE).command

\* INSERT OR REPLACE: the rows that conflict with the new row on
\* UNIQUE(panel, name) or on UNIQUE(alias_key) are deleted, then the new
\* row is inserted
store_add_alias(table, panel, name, command) ==
    LET alias_key == Lower(panel) \o name
        kept == {r \in table : /\ ~(r.panel = panel /\ r.name = name)
                               /\ r.alias_key # alias_key}
    IN kept \cup {[panel |-> panel, name |-> name,
                   alias_key |-> alias_key, command |-> command]}

\* DELETE FROM aliases WHERE panel = ? AND name = ?
store_remove_alias(table, panel, name) ==
    {r \in table : ~(r.panel = panel /\ r.name = name)}

InitAliases ==
    /\ ExecutorUnused
    /\ BinderUnused
    /\ input = <<>>
    /\ phase = "aliases"
    /\ rendered = <<>>
    /\ lex = LexInit
    /\ segments = <<>>
    /\ procs = <<>>
    /\ aliases = {}
    /\ stack = <<>>
    /\ frames = <<>>
    /\ kpc = "idle"
    /\ events = <<>>
    /\ cmd = [op |-> "none", panel |-> <<>>, name |-> <<>>]
    /\ result = NoResult
    /\ ncmd = 0
    /\ children = <<>>

AliasesFrame ==
    UNCHANGED <<compilerVars, procs, stack, frames, kpc, events, result,
                children, executorVars>>

AddAlias ==
    /\ ncmd < MaxAliasOps
    /\ \E panel \in Panels, name \in AliasNames, command \in AliasCommands :
           /\ aliases' = store_add_alias(aliases, panel, name, command)
           /\ cmd' = [op |-> "add_alias", panel |-> panel, name |-> name]
    /\ ncmd' = ncmd + 1
    /\ AliasesFrame

RemoveAlias ==
    /\ ncmd < MaxAliasOps
    /\ \E panel \in Panels, name \in AliasNames :
           /\ aliases' = store_remove_alias(aliases, panel, name)
           /\ cmd' = [op |-> "remove_alias", panel |-> panel, name |-> name]
    /\ ncmd' = ncmd + 1
    /\ AliasesFrame

NextAliases == AddAlias \/ RemoveAlias

SpecAliases == InitAliases /\ [][NextAliases]_vars

\* C38: add_alias(p, n, c) leaves find_alias(p2, n2) unchanged for every
\* pair (p2, n2) other than (p, n)
C38_AddAliasFrame ==
    [][(ncmd' = ncmd + 1 /\ cmd'.op = "add_alias") =>
          \A p2 \in Panels, n2 \in AliasNames :
              <<p2, n2>> # <<cmd'.panel, cmd'.name>> =>
                  store_find_alias(aliases', p2, n2)
                      = store_find_alias(aliases, p2, n2)]_vars

\* C36: when the child of run_pty ends with code c before the deadline,
\* the call returns c (1 for 127), also when the read of the master side
\* fails with the hang-up before a poll has seen the exit; a child that
\* ended with 0 is never reported with exit code 1
C36_PtyExitCode ==
    (ret.returned /\ call.mode = "run_pty" /\ ExitedInTime
        /\ ~thread.timed_out) =>
        /\ ret.exit_code = ExitCode(<<proc.code>>)
        /\ proc.code = 0 => ret.exit_code # 1

(* ------------------------------------------------------------------ *)
(* SpecRerun: the kernel of Spec with the rerun command.  cmd holds    *)
(* the last alias line, so cmd[1] is _last_alias_by_panel[panel].      *)
(* ------------------------------------------------------------------ *)
NoPrevious == Line("noprevious", <<>>)

\* the text handed back by _handle_rerun_alias
Rerun(out) == [out |-> out, entered |-> TRUE, rerun |-> TRUE]

\* handle_command on the rerun trigger: _handle_rerun_alias and the
\* _execute_alias it calls, which hands the body to the executor and the
\* result to store.record_event, whose failure is caught
HandleRerun ==
    /\ kpc = "idle"
    /\ ncmd < MaxCommands
    /\ ncmd' = ncmd + 1
    /\ IF cmd = <<>> \/ ~find_alias(aliases, cmd[1]).found
       THEN /\ result' = Rerun(<<NoPrevious>>)
            /\ procs' = <<>>
            /\ children' = <<>>
            /\ events' = <<>>
       ELSE LET alias_cmd == find_alias(aliases, cmd[1]).body
            IN /\ procs' = <<Proc(alias_cmd, <<>>)>>
               /\ \E how \in {"exited", "killed"} :
                      children' = <<Child(<<>>, how)>>
               /\ \E recorded \in BOOLEAN :
                      /\ events' = IF recorded
                                   THEN <<[raw |-> cmd[1],
                                           resolved |-> alias_cmd]>>
                                   ELSE <<>>
                      /\ result' = Rerun((IF recorded THEN <<>>
                                          ELSE <<RecordFailed>>)
                                         \o <<RunOutput(alias_cmd)>>)
    /\ UNCHANGED <<executorVars, compilerVars, aliases, stack, frames, kpc,
                   cmd>>

NextRerun == Next \/ HandleRerun

SpecRerun == Init /\ [][NextRerun]_vars

\* C40: rerun runs the last alias through the expansion pipeline of a
\* typed name: the body is segmented and every chained call is expanded
\* by the engine, so no script handed to the shell holds a chained call
C40_RerunExpands ==
    ("rerun" \in DOMAIN result) =>
        \A n \in 1..Len(procs) :
            \A k \in 1..Len(parse_alias_script(procs[n].script)) :
                parse_alias_script(procs[n].script)[k].type = "literal"

(* ------------------------------------------------------------------ *)
(* SpecRepl: run_repl reads lines and hands them to handle_command.    *)
(* The kernel is in panel G (shell_fallback), "N" is the trigger of    *)
(* add and "ZZ" the exit entry.  kpc is the position of run_repl       *)
(* ("prompt", "continuation", "dispatch", "ended"), segments the lines *)
(* typed for the current command, input the stripped first line        *)
(* (original_line), cmd the accumulated alias_body, rendered the line  *)
(* for handle_command, aliases the table of the panel, events the      *)
(* recorded commands, ncmd the number of ui.read calls, result the     *)
(* session: kernel.running, the texts written to the user and the      *)
(* outcome of the last handle_command.                                 *)
(* ------------------------------------------------------------------ *)
MaxReads == 3

\* has_trailing_backslash: the scan from position k in state st
RECURSIVE TrailingBackslashFrom(_, _, _)
TrailingBackslashFrom(text, k, st) ==
    IF k > Len(text) THEN st = "ESCAPE"
    ELSE
      LET ch == text[k] IN
      CASE st = "ESCAPE" -> TrailingBackslashFrom(text, k + 1, "NORMAL")
        [] st = "NORMAL" ->
             TrailingBackslashFrom(text, k + 1,
                                   IF ch = BS THEN "ESCAPE"
                                   ELSE IF ch = SQ THEN "SINGLE_QUOTE"
                                   ELSE IF ch = DQ THEN "DOUBLE_QUOTE"
                                   ELSE "NORMAL")
        [] st = "SINGLE_QUOTE" ->
             TrailingBackslashFrom(text, k + 1,
                                   IF ch = SQ THEN "NORMAL"
                                   ELSE "SINGLE_QUOTE")
        [] OTHER ->
             IF ch = BS THEN
                 IF k + 1 <= Len(text)
                 THEN TrailingBackslashFrom(text, k + 2, "DOUBLE_QUOTE")
                 ELSE TRUE
             ELSE TrailingBackslashFrom(text, k + 1,
                                        IF ch = DQ THEN "NORMAL"
                                        ELSE "DOUBLE_QUOTE")

has_trailing_backslash(text) ==
    text # <<>> /\ TrailingBackslashFrom(text, 1, "NORMAL")

is_shell_input_incomplete(text) ==
    ~is_quote_balanced(text) \/ has_trailing_backslash(text)

\* str.find(' ') + 1: the position of the first space, 0 without one
FirstSpace(s) ==
    IF \E k \in 1..Len(s) : s[k] = " "
    THEN CHOOSE k \in 1..Len(s) :
             s[k] = " " /\ \A j \in 1..(k - 1) : s[j] # " "
    ELSE 0

\* the number of leading characters with ch.isalnum() or ch == '_'
RECURSIVE NameEnd(_)
NameEnd(s) ==
    IF s # <<>> /\ Head(s) \in IdentChars THEN 1 + NameEnd(Tail(s)) ELSE 0

\* kernel.command_triggers.get(trigger)
command_triggers(trigger) == IF trigger = <<"N">> THEN "add" ELSE "none"

exit_entry == <<"Z", "Z">>

\* the trigger, the name and the text after the name, as the loops of
\* _extract_alias_body and of run_repl find them; ok is FALSE where the
\* code gives up
SplitAddLine(line) ==
    LET stripped == Strip(line)
        space_idx == FirstSpace(stripped)
        trigger == SubSeq(stripped, 1, space_idx - 1)
        after_trigger == LStrip(SubSeq(stripped, space_idx, Len(stripped)))
        name_end == NameEnd(after_trigger)
    IN IF space_idx <= 1
       THEN [ok |-> FALSE, trigger |-> <<>>, name |-> <<>>, body |-> <<>>]
       ELSE [ok |-> name_end > 0,
             trigger |-> trigger,
             name |-> SubSeq(after_trigger, 1, name_end),
             body |-> LStrip(SubSeq(after_trigger, name_end + 1,
                                    Len(after_trigger)))]

\* _extract_alias_body: <<>> stands for None, <<body>> for a body
extract_alias_body(line) ==
    LET parts == SplitAddLine(line)
    IN IF parts.ok /\ command_triggers(parts.trigger) = "add"
       THEN <<parts.body>>
       ELSE <<>>

\* the line run_repl rebuilds from original_line and the accumulated body
Reconstruct(original_line, alias_body) ==
    LET parts == SplitAddLine(original_line)
    IN IF parts.ok
       THEN parts.trigger \o <<" ">> \o parts.name \o <<" ">> \o alias_body
       ELSE original_line

\* str.split(): the words between runs of whitespace
RECURSIVE PySplitFrom(_, _, _)
PySplitFrom(s, word, words) ==
    LET emit == IF word = <<>> THEN words ELSE Append(words, word)
    IN IF s = <<>> THEN emit
       ELSE IF Head(s) \in PyWhitespace
       THEN PySplitFrom(Tail(s), <<>>, emit)
       ELSE PySplitFrom(Tail(s), Append(word, Head(s)), words)

PySplit(s) == PySplitFrom(s, <<>>, <<>>)

\* what one call of handle_command did: raised is an exception that left
\* it, out the text it returned, fault the failure that happened in it,
\* kind the command, added the alias given to store.add_alias
Handled(kind, out, store, evs) ==
    [raised |-> FALSE, kind |-> kind, out |-> out, aliases |-> store,
     events |-> evs, running |-> TRUE, fault |-> "none", added |-> <<>>]

Escaped(kind, fault, store, evs) ==
    [raised |-> TRUE, kind |-> kind, out |-> <<>>, aliases |-> store,
     events |-> evs, running |-> TRUE, fault |-> fault, added |-> <<>>]

Event(raw) == [raw |-> raw]

\* the executor runs the text and store.record_event gets the result; an
\* exception of the executor and a KeyboardInterrupt during the run leave
\* the call, an exception of record_event is caught and reported in front
\* of the output
RunAndRecord(kind, raw, resolved, store, evs, fault) ==
    IF fault \in {"executor", "interrupt"}
    THEN Escaped(kind, fault, store, evs)
    ELSE IF fault = "recorder"
    THEN [Handled(kind, <<RecordFailed, RunOutput(resolved)>>, store, evs)
             EXCEPT !.fault = fault]
    ELSE Handled(kind, <<RunOutput(resolved)>>, store,
                 Append(evs, Event(raw)))

\* the text of a builtin is returned after store.record_event, which is
\* called outside any try statement
BuiltinAndRecord(kind, raw, text, store, evs, fault) ==
    IF fault = "recorder" THEN Escaped(kind, fault, store, evs)
    ELSE Handled(kind, <<Line(kind, <<text>>)>>, store,
                 Append(evs, Event(raw)))

reserved_triggers == {<<"N">>, <<"L">>, <<"R">>, <<"R","M">>}

handle_new_alias(parts, raw_input, store, evs, fault) ==
    LET trigger == parts[1]
        name == parts[2]
        after_trigger ==
            LStrip(SubSeq(raw_input, Len(trigger) + 1, Len(raw_input)))
        raw_body ==
            LStrip(SubSeq(after_trigger, Len(name) + 1, Len(after_trigger)))
    IN IF Len(parts) < 3
       THEN Handled("add", <<Line("usage", <<>>)>>, store, evs)
       ELSE IF ~StartsWithAt(after_trigger, name, 1)
       THEN Handled("add", <<Line("nameerror", <<>>)>>, store, evs)
       ELSE IF raw_body = <<>>
       THEN Handled("add", <<Line("usage", <<>>)>>, store, evs)
       ELSE IF name \in reserved_triggers
       THEN Handled("add", <<Line("reserved", <<name>>)>>, store, evs)
       ELSE IF fault = "store"
       THEN Escaped("add", fault, store, evs)
       ELSE [Handled("add", <<Line("added", <<name>>)>>,
                     [n \in DOMAIN store \cup {name} |->
                          IF n = name THEN raw_body ELSE store[n]],
                     evs)
                EXCEPT !.added = <<name, raw_body>>]

\* handle_command for the lines typed here, none of which is a clear,
\* help, history, SET or panel command
handle_command(command, store, evs, fault) ==
    LET stripped == Strip(command)
        split == shlex_split(stripped)
        parts == IF split.ok THEN split.toks ELSE PySplit(stripped)
    IN IF Head(command) = "!"
       THEN RunAndRecord("raw", command, Tail(command), store, evs, fault)
       ELSE IF stripped = exit_entry
       THEN [Handled("exit", <<Line("exiting", <<>>)>>, store, evs)
                EXCEPT !.running = FALSE]
       ELSE IF parts = <<>>
       THEN Handled("unknown", <<Line("unknown", <<>>)>>, store, evs)
       ELSE IF command_triggers(parts[1]) = "add" /\ Len(parts) > 1
       THEN handle_new_alias(parts, stripped, store, evs, fault)
       ELSE IF fault = "store"
       THEN Escaped("lookup", fault, store, evs)
       ELSE IF find_alias(store, parts[1]).found
       THEN RunAndRecord("alias", stripped, find_alias(store, parts[1]).body,
                         store, evs, fault)
       ELSE IF parts[1] = <<"c","d">>
       THEN BuiltinAndRecord("cd", Join(parts, <<" ">>),
                             Join(Tail(parts), <<" ">>), store, evs, fault)
       ELSE IF parts[1] = <<"p","w","d">>
       THEN BuiltinAndRecord("pwd", parts[1], <<"/">>, store, evs, fault)
       ELSE RunAndRecord("raw", command, command, store, evs, fault)

\* KeyboardInterrupt or EOFError raised by the read
Interrupt == <<"KeyboardInterrupt">>

\* the lines typed at the prompt:
\*   N ab ls      N m-a ls     N q 'a      N q 'a_     N m-a 'a
\*   N b ls \     pwd          cd /x       !ls         ls
\*   ab           ZZ           _
\* (_ is a space)
ReplInputs ==
    {<<"N"," ","a","b"," ","l","s">>,
     <<"N"," ","m","-","a"," ","l","s">>,
     <<"N"," ","q"," ",SQ,"a">>,
     <<"N"," ","q"," ",SQ,"a"," ">>,
     <<"N"," ","m","-","a"," ",SQ,"a">>,
     <<"N"," ","b"," ","l","s"," ",BS>>,
     <<"p","w","d">>,
     <<"c","d"," ","/","x">>,
     <<"!","l","s">>,
     <<"l","s">>,
     <<"a","b">>,
     <<"Z","Z">>,
     <<" ">>}

\* the lines typed at the continuation prompt:   b'   b
ContinuationInputs == {<<"b",SQ>>, <<"b">>}

\* what can fail inside one call of handle_command
Faults == {"none", "recorder", "executor", "store", "interrupt"}

NoOutcome == [Handled("none", <<>>, <<>>, <<>>) EXCEPT !.aliases = <<>>]

Unhandled == Line("unhandled", <<>>)

InitRepl ==
    /\ ExecutorUnused
    /\ BinderUnused
    /\ input = <<>>
    /\ phase = "repl"
    /\ rendered = <<>>
    /\ lex = LexInit
    /\ segments = <<>>
    /\ procs = <<>>
    /\ aliases = <<>>
    /\ stack = <<>>
    /\ frames = <<>>
    /\ kpc = "prompt"
    /\ events = <<>>
    /\ cmd = <<>>
    /\ result = [running |-> TRUE, shown |-> <<>>, dispatched |-> <<>>,
                 last |-> NoOutcome]
    /\ ncmd = 0
    /\ children = <<>>

ReplFrame ==
    UNCHANGED <<phase, lex, procs, kwargs, subst, stack, frames, children,
                executorVars>>

Show(text) == [result EXCEPT !.shown = Append(@, text)]

\* one pass of the loop of run_repl from the prompt to the next read or
\* to the call of handle_command
ReplRead ==
    /\ kpc = "prompt"
    /\ ncmd < MaxReads
    /\ ncmd' = ncmd + 1
    /\ \E typed \in ReplInputs \cup {Interrupt} :
         LET line == Strip(typed)
             alias_body == extract_alias_body(line)
         IN IF typed = Interrupt
            THEN /\ result' = [Show(<<Line("bye", <<>>)>>)
                                   EXCEPT !.dispatched = <<>>]
                 /\ kpc' = "ended"
                 /\ segments' = <<>>
                 /\ UNCHANGED <<input, rendered, cmd>>
            ELSE /\ segments' = <<typed>>
                 /\ input' = line
                 /\ result' = [result EXCEPT !.dispatched = <<>>]
                 /\ IF line = <<>>
                    THEN /\ kpc' = "prompt"
                         /\ rendered' = line
                         /\ cmd' = <<>>
                    ELSE IF alias_body = <<>>
                    THEN /\ kpc' = "dispatch"
                         /\ rendered' = line
                         /\ cmd' = <<>>
                    ELSE IF is_shell_input_incomplete(alias_body[1])
                    THEN /\ kpc' = "continuation"
                         /\ rendered' = line
                         /\ cmd' = alias_body[1]
                    ELSE /\ kpc' = "dispatch"
                         /\ rendered' = Reconstruct(line, alias_body[1])
                         /\ cmd' = alias_body[1]
    /\ UNCHANGED <<aliases, events>>
    /\ ReplFrame

\* one pass of the continuation loop of run_repl
ReplContinue ==
    /\ kpc = "continuation"
    /\ ncmd < MaxReads
    /\ ncmd' = ncmd + 1
    /\ \E continuation \in ContinuationInputs \cup {Interrupt} :
         /\ segments' = Append(segments, continuation)
         /\ IF continuation = Interrupt
            THEN /\ result' = Show(<<Line("cancelled", <<>>)>>)
                 /\ rendered' = <<>>
                 /\ kpc' = "prompt"
                 /\ UNCHANGED cmd
            ELSE LET alias_body == cmd \o <<NL>> \o continuation
                 IN /\ cmd' = alias_body
                    /\ UNCHANGED result
                    /\ IF is_shell_input_incomplete(alias_body)
                       THEN UNCHANGED <<kpc, rendered>>
                       ELSE /\ kpc' = "dispatch"
                            /\ rendered' = Reconstruct(input, alias_body)
    /\ UNCHANGED <<input, aliases, events>>
    /\ ReplFrame

\* a loop whose call of handle_command is not inside a try statement
ReplDispatchUnguarded ==
    /\ kpc = "dispatch"
    /\ \E fault \in Faults :
         LET r == handle_command(rendered, aliases, events, fault)
         IN /\ aliases' = r.aliases
            /\ events' = r.events
            /\ result' = [running |-> r.running,
                          shown |-> IF r.fault = "interrupt"
                                    THEN Append(result.shown,
                                                <<Line("bye", <<>>)>>)
                                    ELSE IF r.raised THEN result.shown
                                    ELSE Append(result.shown, r.out),
                          dispatched |-> Append(result.dispatched, rendered),
                          last |-> r]
            /\ kpc' = IF r.running /\ ~r.raised THEN "prompt" ELSE "ended"
    /\ UNCHANGED <<input, rendered, segments, cmd, ncmd>>
    /\ ReplFrame

\* the try statement of run_repl around handle_command, the test of
\* kernel.running that follows it, and the outer except clause for a
\* KeyboardInterrupt that leaves handle_command
ReplDispatch ==
    /\ kpc = "dispatch"
    /\ \E fault \in Faults :
         LET r == handle_command(rendered, aliases, events, fault)
         IN /\ aliases' = r.aliases
            /\ events' = r.events
            /\ result' = [running |-> r.running,
                          shown |-> Append(result.shown,
                                           IF r.fault = "interrupt"
                                           THEN <<Line("bye", <<>>)>>
                                           ELSE IF r.raised
                                           THEN <<Unhandled>>
                                           ELSE r.out),
                          dispatched |-> Append(result.dispatched, rendered),
                          last |-> r]
            /\ kpc' = IF r.running /\ r.fault # "interrupt"
                      THEN "prompt" ELSE "ended"
    /\ UNCHANGED <<input, rendered, segments, cmd, ncmd>>
    /\ ReplFrame

NextRepl == ReplRead \/ ReplContinue \/ ReplDispatch

SpecRepl == InitRepl /\ [][NextRepl]_vars

(* ------------------------------------------------------------------ *)
(* Claims about the session                                            *)
(* ------------------------------------------------------------------ *)
\* the call of handle_command of this pass has returned or raised
Dispatched == result.dispatched # <<>>

\* the text written to the user last
LastShown ==
    IF result.shown = <<>> THEN <<>> ELSE result.shown[Len(result.shown)]

\* C33: when store.record_event raises in a command that records an event
\* (alias, raw shell command, cd, pwd), handle_command still returns the
\* output of the command, with the warning line in front of it; the
\* exception neither replaces nor suppresses the output
C33_OutputSurvivesRecorder ==
    result.last.fault = "recorder" =>
        /\ ~result.last.raised
        /\ Len(result.last.out) = 2
        /\ result.last.out[1] = RecordFailed

\* C34: no line ends the session through a failure: after an exception of
\* the store or of the executor in handle_command the loop has reported it
\* and is back at the prompt; the loop is left only after the exit entry
\* or after an interrupt of the user (Ctrl-C, Ctrl-D), and kernel.running
\* is false only after the exit entry
C34_SessionSurvives ==
    /\ ~result.running =>
           /\ result.last.kind = "exit"
           /\ Strip(result.dispatched[Len(result.dispatched)]) = exit_entry
    /\ kpc = "ended" =>
           \/ ~result.running
           \/ LastShown = <<Line("bye", <<>>)>>
    /\ (Dispatched /\ result.last.raised
           /\ result.last.fault # "interrupt") =>
           /\ kpc = "prompt"
           /\ result.running
           /\ LastShown = <<Unhandled>>

\* a failure was reported and a later line was handled
C34_Witness ==
    /\ kpc = "prompt"
    /\ Dispatched
    /\ ~result.last.raised
    /\ \E i \in 1..(Len(result.shown) - 1) : result.shown[i] = <<Unhandled>>

\* the alias that handle_command stores for a text handed to it directly
DirectlyAdded(text) == handle_command(text, <<>>, <<>>, "none").added

\* C35: while the body of an add line is incomplete the loop reads
\* continuation lines and hands nothing to handle_command; once the body
\* is complete exactly one add command is handed over, which stores the
\* typed lines joined by newlines; an interrupt during the continuation
\* stores nothing and leads back to the prompt
C35_Continuation ==
    /\ kpc = "continuation" =>
           /\ ~Dispatched
           /\ is_shell_input_incomplete(cmd)
    /\ (Dispatched /\ Len(segments) > 1 /\ result.last.fault = "none") =>
           /\ Len(result.dispatched) = 1
           /\ result.last.kind = "add"
           /\ result.last.added = DirectlyAdded(Join(segments, <<NL>>))
    /\ (segments # <<>> /\ segments[Len(segments)] = Interrupt) =>
           /\ kpc = "prompt"
           /\ ~Dispatched
           /\ result.running
           /\ LastShown = <<Line("cancelled", <<>>)>>

\* C39: for an add line whose body is complete when typed, the command
\* that run_repl hands to handle_command stores the name and the body
\* that handle_command stores for the typed line itself, for every name
\* that handle_command accepts
C39_ReplAddsAsKernel ==
    (Dispatched /\ Len(segments) = 1 /\ result.last.fault = "none"
        /\ DirectlyAdded(segments[1]) # <<>>) =>
        result.last.added = DirectlyAdded(segments[1])

====
